---- MODULE Spec2Model ----
(***************************************************************************)
(* WaveCatcher: CD/MC signal computation, forward-return backtest and      *)
(* multi-timeframe resonance aggregation.                                  *)
(*                                                                         *)
(* Conventions of the model                                                *)
(*  - A pandas Series / DataFrame column is a sequence; position i of the  *)
(*    sequence (1-based) is the row with iloc index i-1.  Timestamps of a  *)
(*    Bar sequence are its positions (the index is sorted and unique).     *)
(*  - Floating-point prices are integers; values derived from them by the  *)
(*    exponential moving averages are kept in fixed point (Fixed) and      *)
(*    divisions truncate toward zero (Div0), which is symmetric under      *)
(*    negation as IEEE arithmetic is.                                      *)
(*  - Percentages rounded to 2 decimals are integers in units of 0.01.     *)
(*  - A float that may be NaN is a record [nan, v]; a tri-state signal     *)
(*    value is one of "True", "False", "NaN".                              *)
(***************************************************************************)
EXTENDS Integers, Sequences, FiniteSets, TLC

VARIABLES
    pc,              \* which operation of the scenario has run
    close,           \* data['Close'] of the Bar sequence under evaluation
    high,            \* data['High'] of the same Bar sequence
    low,             \* data['Low'] of the same Bar sequence
    volume,          \* data['Volume'] of the same Bar sequence
    cd_signals,      \* SignalSeries returned by compute_cd_indicator
    mc_signals,      \* SignalSeries returned by compute_mc_indicator
    timeframe,       \* the interval argument of evaluate_interval
    frames,          \* the data argument: timeframe -> [index, Close] frame
    returns_df,      \* rows of the DataFrame calculate_returns returned
    result,          \* what evaluate_interval returned
    signal_records,  \* the data argument of identify_1234 / identify_5230
    all_ticker_data, \* the all_ticker_data argument of the aggregator
    window_start,    \* the start_date argument of get_trading_day_window_end
    window_end,      \* what get_trading_day_window_end returned
    breakout,        \* what identify_1234 / identify_5230 returned or raised
    provider,        \* what the market-data provider answers: bars, nothing, an error
    fetched,         \* the calls made to the market-data provider
    bars_in,         \* the df argument of transform_1h_data / transform_5m_data
    target,          \* the new_interval argument of the transform
    bars_out,        \* what the transform returned
    bars_again,      \* what the transform returned for its own output
    runs,            \* the rows of table analysis_runs
    results,         \* the rows of table analysis_results
    run_seq,         \* the number of AnalysisRun rows inserted so far
    job,             \* the locals of the analyze_stocks invocation under way
    last_call,       \* the latest db_utils call: arguments, outcome, tables before
    cross_call,      \* the arguments of the latest cross evaluation
    cross_eval,      \* the metrics the cross evaluation returned
    breakthrough,    \* the series compute_nx_break_through returned
    buy_signals,     \* buy_signals of process_ticker_1234 / process_ticker_5230
    cd_1234,         \* cd_1234 of the price-history endpoint
    look_series,     \* the series argument of a lookback primitive
    look_call,       \* the primitive applied and its second argument
    look_out,        \* what the primitive returned
    clock,           \* the second datetime.now() reads
    heap,            \* the AnalysisJob objects, in order of construction
    jobs,            \* JobManager.jobs: job_id -> AnalysisJob
    current_job_id,  \* JobManager.current_job_id
    threads,         \* the background threads: argument, position, locals
    start_call       \* the latest start call and how it ended

bar_vars == <<close, high, low, volume>>
signal_vars == <<cd_signals, mc_signals>>
backtest == <<timeframe, frames, returns_df, result>>
resonance == <<signal_records, all_ticker_data, window_start, window_end, breakout>>

market == <<provider, fetched>>

\* the variables of the scenarios that come after the aggregator's
resampling == <<bars_in, target, bars_out, bars_again>>
run_store == <<runs, results, run_seq, job, last_call>>
crossing == <<cross_call, cross_eval>>
rolling == <<breakthrough, buy_signals, cd_1234>>
lookback == <<look_series, look_call, look_out>>
engine == <<clock, heap, jobs, current_job_id, threads, start_call>>
\* the variables of the scenarios that come after the run store's
later == <<crossing, rolling, lookback, engine>>
elsewhere == <<market, resampling, run_store, later>>

vars == <<pc, bar_vars, signal_vars, backtest, resonance, elsewhere>>

----------------------------------------------------------------------------
(* Generic helpers *)

Max(a, b) == IF a >= b THEN a ELSE b
Min(a, b) == IF a <= b THEN a ELSE b
Abs(a) == IF a >= 0 THEN a ELSE -a

\* Division truncating toward zero
Div0(a, b) == IF a >= 0 THEN a \div b ELSE -((-a) \div b)

\* Fixed-point image of a price
Fixed(c) == c * 1000

SeqMin(s, lo, hi) == CHOOSE m \in {s[k] : k \in lo..hi} : \A k \in lo..hi : m <= s[k]
SeqMax(s, lo, hi) == CHOOSE m \in {s[k] : k \in lo..hi} : \A k \in lo..hi : m >= s[k]

\* A float: NaN or a number
NaNf == [nan |-> TRUE, v |-> 0]
Num(x) == [nan |-> FALSE, v |-> x]
\* Comparisons of floats: any comparison with NaN is False
FLt(a, b) == ~a.nan /\ ~b.nan /\ a.v < b.v
FGt(a, b) == ~a.nan /\ ~b.nan /\ a.v > b.v

----------------------------------------------------------------------------
(* indicators.py *)

ema_warmup_period == 0

\* Series.ewm(span, adjust=False).mean(): seed = first value, then
\* ema[i] = alpha*x[i] + (1-alpha)*ema[i-1] with alpha = 2/(span+1)
\* y[t] = (1 - alpha) * y[t-1] + alpha * x[t] with alpha = 2 / (span + 1), computed
\* by halves so that the depth of the evaluation stays logarithmic
RECURSIVE EwmFrom(_, _, _)
EwmFrom(prev, x, span) ==
    IF Len(x) = 1 THEN <<Div0(2 * x[1] + (span - 1) * prev, span + 1)>>
    ELSE LET half == Len(x) \div 2
             left == EwmFrom(prev, SubSeq(x, 1, half), span)
         IN  left \o EwmFrom(left[half], SubSeq(x, half + 1, Len(x)), span)

EwmMean(x, span) ==
    IF Len(x) <= 1 THEN x
    ELSE <<x[1]>> \o EwmFrom(x[1], Tail(x), span)

\* the earliest event up to bar i, 0 if none yet
EarliestEvent(cross_events, i) ==
    IF \E j \in 1..i : cross_events[j]
    THEN CHOOSE j \in 1..i : cross_events[j] /\ \A k \in 1..(j - 1) : ~cross_events[k]
    ELSE 0

\* _compute_barslast: distance to the most recent event, 0 if none yet
RECURSIVE LastEvent(_, _)
LastEvent(cross_events, i) ==
    IF i = 0 THEN 0
    ELSE IF cross_events[i] THEN i ELSE LastEvent(cross_events, i - 1)

_compute_barslast(cross_events, length) ==
    [i \in 1..length |->
        LET last_event == LastEvent(cross_events, i)
        IN  IF last_event # 0 THEN i - last_event ELSE 0]

\* _compute_llv / _compute_hhv: extremum over a per-bar window
_compute_llv(series, periods) ==
    [i \in 1..Len(series) |->
        IF periods[i] > 0
        THEN Num(SeqMin(series, Max(1, i - periods[i] + 1), i))
        ELSE NaNf]

_compute_hhv(series, periods) ==
    [i \in 1..Len(series) |->
        IF periods[i] > 0
        THEN Num(SeqMax(series, Max(1, i - periods[i] + 1), i))
        ELSE NaNf]

\* _compute_ref: series looked back lag bars (lag <= iloc index)
_compute_ref(series, lags) ==
    [i \in 1..Len(series) |->
        IF lags[i] <= i - 1 THEN series[i - lags[i]] ELSE NaNf]

\* MACD line: diff = EMA(12) - EMA(26) of Close
MacdDiff(x) ==
    LET fast_ema == EwmMean(x, 12)
        slow_ema == EwmMean(x, 26)
    IN  [i \in 1..Len(x) |-> fast_ema[i] - slow_ema[i]]

\* MACD histogram: mcd = (diff - dea) * 2 with dea = EMA(9) of diff
MacdHist(diff) ==
    LET dea == EwmMean(diff, 9)
    IN  [i \in 1..Len(diff) |-> (diff[i] - dea[i]) * 2]

\* cross events and the lookback lengths n1_safe = n1 + 1, mm1_safe = mm1 + 1
cross_down(mcd) == [i \in 1..Len(mcd) |-> i > 1 /\ mcd[i - 1] >= 0 /\ mcd[i] < 0]
cross_up(mcd) == [i \in 1..Len(mcd) |-> i > 1 /\ mcd[i - 1] <= 0 /\ mcd[i] > 0]

SafeLen(cross_events) ==
    LET barslast == _compute_barslast(cross_events, Len(cross_events))
    IN  [i \in 1..Len(cross_events) |-> barslast[i] + 1]

MacdRecord(x, diff, mcd) ==
    [x |-> x, diff |-> diff, mcd |-> mcd,
     n1_safe |-> SafeLen(cross_down(mcd)),
     mm1_safe |-> SafeLen(cross_up(mcd))]

MacdOfDiff(x, diff) == MacdRecord(x, diff, MacdHist(diff))
MacdOfSeries(x) == MacdOfDiff(x, MacdDiff(x))

\* The MACD block shared by compute_cd_indicator and compute_mc_indicator
Macd(cl) == MacdOfSeries([i \in 1..Len(cl) |-> Fixed(cl[i])])

\* ccc = aaa | bbb, the raw CD trigger, from the MACD block m
CdRaw(m) ==
    LET n == Len(m.x)
        cc1 == _compute_llv(m.x, m.n1_safe)
        cc2 == _compute_ref(cc1, m.mm1_safe)
        cc3 == _compute_ref(cc2, m.mm1_safe)
        difl1 == _compute_llv(m.diff, m.n1_safe)
        difl2 == _compute_ref(difl1, m.mm1_safe)
        difl3 == _compute_ref(difl2, m.mm1_safe)
        aaa == [i \in 1..n |-> FLt(cc1[i], cc2[i]) /\ FGt(difl1[i], difl2[i])
                               /\ (i > 1 /\ m.mcd[i - 1] < 0) /\ m.diff[i] < 0]
        bbb == [i \in 1..n |-> FLt(cc1[i], cc3[i]) /\ FLt(difl1[i], difl2[i])
                               /\ FGt(difl1[i], difl3[i])
                               /\ (i > 1 /\ m.mcd[i - 1] < 0) /\ m.diff[i] < 0]
    IN  [i \in 1..n |-> aaa[i] \/ bbb[i]]

\* jjj = ccc.shift(1) & (abs(diff.shift(1)) >= abs(diff) * 1.01)
CdConfirm(m, ccc) ==
    [i \in 1..Len(m.x) |->
        i > 1 /\ ccc[i - 1]
        /\ Abs(m.diff[i - 1]) * 100 >= Abs(m.diff[i]) * 101]

CdConfirmOf(m) == CdConfirm(m, CdRaw(m))

cd_ccc(cl) == CdRaw(Macd(cl))
cd_jjj(cl) == CdConfirmOf(Macd(cl))

\* A boolean series with the first ema_warmup_period rows set to NaN
WarmupMask(b) ==
    [i \in 1..Len(b) |->
        IF i <= ema_warmup_period THEN "NaN"
        ELSE IF b[i] THEN "True" ELSE "False"]

\* x & ~x.shift(1, fill_value=False): the first bar of every run of x
FirstOfRun(b) == [i \in 1..Len(b) |-> b[i] /\ ~(i > 1 /\ b[i - 1])]

compute_cd_indicator_level(cl) == WarmupMask(cd_jjj(cl))

\* dxdx = jjj & ~jjj.shift(1, fill_value=False), then the warmup mask
compute_cd_indicator(cl) == WarmupMask(FirstOfRun(cd_jjj(cl)))

\* dbbl = (zjdbl | gxdbl) & (diff > 0), the raw MC trigger, from the MACD block m
McRaw(m) ==
    LET n == Len(m.x)
        ch1 == _compute_hhv(m.x, m.mm1_safe)
        ch2 == _compute_ref(ch1, m.n1_safe)
        ch3 == _compute_ref(ch2, m.n1_safe)
        difh1 == _compute_hhv(m.diff, m.mm1_safe)
        difh2 == _compute_ref(difh1, m.n1_safe)
        difh3 == _compute_ref(difh2, m.n1_safe)
        zjdbl == [i \in 1..n |-> FGt(ch1[i], ch2[i]) /\ FLt(difh1[i], difh2[i])
                                 /\ (i > 1 /\ m.mcd[i - 1] > 0) /\ m.diff[i] > 0]
        gxdbl == [i \in 1..n |-> FGt(ch1[i], ch3[i]) /\ FGt(difh1[i], difh2[i])
                                 /\ FLt(difh1[i], difh3[i])
                                 /\ (i > 1 /\ m.mcd[i - 1] > 0) /\ m.diff[i] > 0]
    IN  [i \in 1..n |-> (zjdbl[i] \/ gxdbl[i]) /\ m.diff[i] > 0]

\* dbjg = dbbl.shift(1) & (diff.shift(1) >= diff * 1.01)
McConfirm(m, dbbl) ==
    [i \in 1..Len(m.x) |->
        i > 1 /\ dbbl[i - 1] /\ m.diff[i - 1] * 100 >= m.diff[i] * 101]

McConfirmOf(m) == McConfirm(m, McRaw(m))

mc_dbbl(cl) == McRaw(Macd(cl))
mc_dbjg(cl) == McConfirmOf(Macd(cl))

\* dbjgxc = dbjg & ~dbjg.shift(1, fill_value=False), then the warmup mask
compute_mc_indicator(cl) == WarmupMask(FirstOfRun(mc_dbjg(cl)))

----------------------------------------------------------------------------
(* get_best_CD_interval.py and get_best_MC_interval.py: shared shapes.
   data is a record of equally long sequences [Close, High, Low, Volume];
   a date is a position of the Bar sequence; None is 0. *)

None == 0

\* evaluate_interval returning None instead of a record
ReturnsNone == [returned |-> "None"]

EMA_WARMUP_PERIOD == 0
MAX_SIGNALS_THRESHOLD == 7

\* max(periods); periods = [0] + list(range(1, 101)) in the source, scaled here
MaxPeriod == 2
periods == 0..MaxPeriod

\* round(n / d, 0) for d > 0, ties to even (Python's round)
RoundHalfEven(n, d) ==
    LET q == n \div d
        r == n - q * d
    IN  IF 2 * r < d THEN q
        ELSE IF 2 * r > d THEN q + 1
        ELSE IF q % 2 = 0 THEN q ELSE q + 1

\* round(num / den * 100, 2) in units of 0.01 percent
Pct(num, den) == RoundHalfEven(10000 * num, den)

\* data.index[signals.fillna(False)]: the dates whose signal is true
SignalDates(signals) == {i \in 1..Len(signals) : signals[i] = "True"}

\* index[-n:] of an ascending index
LastN(dates, n) == {d \in dates : Cardinality({e \in dates : e > d}) < n}

\* an ascending index as a sequence
RECURSIVE Ascending(_)
Ascending(S) ==
    IF S = {} THEN <<>>
    ELSE LET m == CHOOSE x \in S : \A y \in S : x <= y
         IN  <<m>> \o Ascending(S \ {m})

\* the per-period return_<p> / volume_<p> cells of one occurrence
ForwardReturnsOnExit(data, date) ==
    [p \in periods |->
        IF date + p <= Len(data.Close)
        THEN Num(Pct(data.Close[date + p] - data.Close[date], data.Close[date + p]))
        ELSE NaNf]

ForwardReturns(data, date) ==
    [p \in periods |->
        IF date + p <= Len(data.Close)
        THEN Num(Pct(data.Close[date + p] - data.Close[date], data.Close[date]))
        ELSE NaNf]

ForwardVolumes(data, date) ==
    [p \in periods |->
        IF date + p <= Len(data.Close) THEN Num(data.Volume[date + p]) ELSE NaNf]

\* the latest date not after the given one
LatestAtOrBefore(dates, date) ==
    LET previous == {d \in dates : d <= date}
    IN  IF previous = {} THEN None
        ELSE CHOOSE d \in previous : \A e \in previous : e <= d

\* find_latest_mc_signal_before_cd / find_latest_cd_signal_before_mc
LatestBefore(dates, date) ==
    LET previous == {d \in dates : d < date}
    IN  IF previous = {} THEN None
        ELSE CHOOSE d \in previous : \A e \in previous : e <= d

find_latest_mc_signal_before_cd(data, cd_date, mc_sig) ==
    LET latest_mc_date == LatestBefore(SignalDates(mc_sig), cd_date)
    IN  IF latest_mc_date = None THEN [date |-> None, price |-> None]
        ELSE [date |-> latest_mc_date, price |-> data.Close[latest_mc_date]]

find_latest_cd_signal_before_mc(data, mc_date, cd_sig) ==
    LET latest_cd_date == LatestBefore(SignalDates(cd_sig), mc_date)
    IN  IF latest_cd_date = None THEN [date |-> None, price |-> None]
        ELSE [date |-> latest_cd_date, price |-> data.Close[latest_cd_date]]

\* window_size = max(3, min(10, total_length // 20)) and the iloc window around idx
LocalWindow(n, date) ==
    LET window_size == Max(3, Min(10, n \div 20))
    IN  Max(1, date - window_size) .. Min(n, date + window_size)

\* the verdict met by one criterion already
VerdictOnAny(percentile, near, move, followed, local) ==
    LET criteria_met == (IF near THEN 1 ELSE 0) + (IF followed THEN 1 ELSE 0)
                        + (IF local THEN 1 ELSE 0)
    IN  [lookback_price_percentile |-> percentile, is_near |-> near,
         move_after |-> move, is_followed |-> followed, is_local |-> local,
         criteria_met |-> criteria_met, is_at_extreme |-> criteria_met >= 1]

\* the three criteria, criteria_met and the verdict
Verdict(percentile, near, move, followed, local) ==
    LET criteria_met == (IF near THEN 1 ELSE 0) + (IF followed THEN 1 ELSE 0)
                        + (IF local THEN 1 ELSE 0)
    IN  [lookback_price_percentile |-> percentile, is_near |-> near,
         move_after |-> move, is_followed |-> followed, is_local |-> local,
         criteria_met |-> criteria_met, is_at_extreme |-> criteria_met >= 2]

\* the record of the except branch
EvaluationFailed ==
    [lookback_price_percentile |-> [num |-> 1, den |-> 2], is_near |-> FALSE,
     move_after |-> 0, is_followed |-> FALSE, is_local |-> FALSE,
     criteria_met |-> 0, is_at_extreme |-> FALSE]

\* data.index.get_loc(date) raises KeyError for a date the index does not hold
RaisesKeyError(data, date) == date \notin 1..Len(data.Close)

\* the evaluation whose range starts after the MC bar
evaluate_mc_after_signal(data, mc_date, mc_price, cd_date) ==
    IF RaisesKeyError(data, mc_date) \/ RaisesKeyError(data, cd_date) THEN EvaluationFailed
    ELSE
    LET n == Len(data.Close)
        warmup_start == Min(EMA_WARMUP_PERIOD, n - 1)
        lookback_max == SeqMax(data.High, mc_date + 1, cd_date)
        lookback_min == SeqMin(data.Low, mc_date + 1, cd_date)
        lookback_range == lookback_max - lookback_min
        has_lookback == mc_date + 1 <= cd_date /\ lookback_range > 0
        lookahead_min == SeqMin(data.Low, mc_date, cd_date)
        price_decline_pct == Pct(mc_price - lookahead_min, mc_price)
        window == LocalWindow(n, mc_date)
        rank_count == Cardinality({k \in window : mc_price >= data.High[k]})
    IN  Verdict(
          IF has_lookback THEN [num |-> mc_price - lookback_min, den |-> lookback_range]
                          ELSE [num |-> 1, den |-> 2],
          has_lookback /\ 10 * (mc_price - lookback_min) >= 8 * lookback_range,
          IF cd_date - mc_date + 1 > 1 THEN price_decline_pct ELSE 0,
          cd_date - mc_date + 1 > 1 /\ price_decline_pct >= 500,
          Cardinality(window) > 1 /\ 10 * rank_count >= 7 * Cardinality(window))

\* evaluate_mc_at_top_price: percentile is kept as the fraction num / den
evaluate_mc_at_top_price(data, mc_date, mc_price, cd_date) ==
    IF RaisesKeyError(data, mc_date) \/ RaisesKeyError(data, cd_date) THEN EvaluationFailed
    ELSE
    LET n == Len(data.Close)
        warmup_start == Min(EMA_WARMUP_PERIOD, n - 1)
        lookback_max == SeqMax(data.High, warmup_start + 1, cd_date)
        lookback_min == SeqMin(data.Low, warmup_start + 1, cd_date)
        lookback_range == lookback_max - lookback_min
        has_lookback == warmup_start + 1 <= cd_date /\ lookback_range > 0
        lookahead_min == SeqMin(data.Low, mc_date, cd_date)
        price_decline_pct == Pct(mc_price - lookahead_min, mc_price)
        window == LocalWindow(n, mc_date)
        rank_count == Cardinality({k \in window : mc_price >= data.High[k]})
    IN  Verdict(
          IF has_lookback THEN [num |-> mc_price - lookback_min, den |-> lookback_range]
                          ELSE [num |-> 1, den |-> 2],
          has_lookback /\ 10 * (mc_price - lookback_min) >= 8 * lookback_range,
          IF cd_date - mc_date + 1 > 1 THEN price_decline_pct ELSE 0,
          cd_date - mc_date + 1 > 1 /\ price_decline_pct >= 500,
          Cardinality(window) > 1 /\ 10 * rank_count >= 7 * Cardinality(window))

\* evaluate_cd_at_bottom_price
evaluate_cd_at_bottom_price(data, cd_date, cd_price, mc_date) ==
    IF RaisesKeyError(data, cd_date) \/ RaisesKeyError(data, mc_date) THEN EvaluationFailed
    ELSE
    LET n == Len(data.Close)
        warmup_start == Min(EMA_WARMUP_PERIOD, n - 1)
        lookback_max == SeqMax(data.High, warmup_start + 1, mc_date)
        lookback_min == SeqMin(data.Low, warmup_start + 1, mc_date)
        lookback_range == lookback_max - lookback_min
        has_lookback == warmup_start + 1 <= mc_date /\ lookback_range > 0
        lookahead_max == SeqMax(data.High, cd_date, mc_date)
        price_increase_pct == Pct(lookahead_max - cd_price, cd_price)
        window == LocalWindow(n, cd_date)
        rank_count == Cardinality({k \in window : cd_price <= data.Low[k]})
    IN  Verdict(
          IF has_lookback THEN [num |-> cd_price - lookback_min, den |-> lookback_range]
                          ELSE [num |-> 1, den |-> 2],
          has_lookback /\ 10 * (cd_price - lookback_min) <= 2 * lookback_range,
          IF mc_date - cd_date + 1 > 1 THEN price_increase_pct ELSE 0,
          mc_date - cd_date + 1 > 1 /\ price_increase_pct >= 500,
          Cardinality(window) > 1 /\ 10 * rank_count >= 7 * Cardinality(window))

----------------------------------------------------------------------------
(* get_best_CD_interval.py: calculate_returns.  The MC series the function
   computes with compute_mc_indicator(data) is the parameter mc_sig. *)

\* the mc_info cells of one row
McInfo(data, date, prev) ==
    IF prev.date = None
    THEN [prev_mc_date |-> None, prev_mc_price |-> None, mc_at_top_price |-> FALSE,
          mc_price_percentile |-> 0, mc_decline_after |-> 0, mc_criteria_met |-> 0]
    ELSE LET mc_evaluation == evaluate_mc_at_top_price(data, prev.date, prev.price, date)
         IN  [prev_mc_date |-> prev.date, prev_mc_price |-> prev.price,
              mc_at_top_price |-> mc_evaluation.is_at_extreme,
              mc_price_percentile |->
                  RoundHalfEven(100 * mc_evaluation.lookback_price_percentile.num,
                                mc_evaluation.lookback_price_percentile.den),
              mc_decline_after |-> mc_evaluation.move_after,
              mc_criteria_met |-> mc_evaluation.criteria_met]

\* one row of the returned DataFrame
CdRow(data, date, mc_sig) ==
    [date |-> date, entry_volume |-> data.Volume[date],
     returns |-> ForwardReturns(data, date),
     volumes |-> ForwardVolumes(data, date)]
    @@ McInfo(data, date, find_latest_mc_signal_before_cd(data, date, mc_sig))

\* the occurrences the loop evaluates: the latest max_signals, minus those
\* with idx + max(periods) >= len(data)
KeptDatesDropFirst(data, signals, max_signals) ==
    LET in_range == {d \in SignalDates(signals) : ~((d - 1) + MaxPeriod >= Len(data.Close))}
    IN  IF Cardinality(in_range) > max_signals THEN LastN(in_range, max_signals) ELSE in_range

\* the kept dates when an occurrence too close to the end is not skipped
KeptDatesToEnd(data, signals, max_signals) ==
    LET signal_dates == SignalDates(signals)
    IN  IF Cardinality(signal_dates) > max_signals
        THEN LastN(signal_dates, max_signals) ELSE signal_dates

KeptDates(data, signals, max_signals) ==
    LET signal_dates == SignalDates(signals)
        latest == IF Cardinality(signal_dates) > max_signals
                  THEN LastN(signal_dates, max_signals) ELSE signal_dates
    IN  {d \in latest : ~((d - 1) + MaxPeriod >= Len(data.Close))}

CdRows(data, dates, mc_sig) == [k \in 1..Len(dates) |-> CdRow(data, dates[k], mc_sig)]

calculate_returns(data, cd_sig, mc_sig, max_signals) ==
    CdRows(data, Ascending(KeptDates(data, cd_sig, max_signals)), mc_sig)

----------------------------------------------------------------------------
(* get_best_MC_interval.py: calculate_returns.  The CD series the function
   computes with compute_cd_indicator(data) is the parameter cd_sig. *)

CdInfo(data, date, prev) ==
    IF prev.date = None
    THEN [prev_cd_date |-> None, prev_cd_price |-> None, cd_at_bottom_price |-> FALSE,
          cd_price_percentile |-> 0, cd_increase_after |-> 0, cd_criteria_met |-> 0]
    ELSE LET cd_evaluation == evaluate_cd_at_bottom_price(data, prev.date, prev.price, date)
         IN  [prev_cd_date |-> prev.date, prev_cd_price |-> prev.price,
              cd_at_bottom_price |-> cd_evaluation.is_at_extreme,
              cd_price_percentile |->
                  RoundHalfEven(100 * cd_evaluation.lookback_price_percentile.num,
                                cd_evaluation.lookback_price_percentile.den),
              cd_increase_after |-> cd_evaluation.move_after,
              cd_criteria_met |-> cd_evaluation.criteria_met]

McRow(data, date, cd_sig) ==
    [date |-> date, entry_volume |-> data.Volume[date],
     returns |-> ForwardReturns(data, date),
     volumes |-> ForwardVolumes(data, date)]
    @@ CdInfo(data, date, find_latest_cd_signal_before_mc(data, date, cd_sig))

McRows(data, dates, cd_sig) == [k \in 1..Len(dates) |-> McRow(data, dates[k], cd_sig)]

mc_calculate_returns(data, mc_sig, cd_sig, max_signals) ==
    McRows(data, Ascending(KeptDates(data, mc_sig, max_signals)), cd_sig)

----------------------------------------------------------------------------
(* evaluate_interval: shared pieces.  df is the Bar sequence data[interval];
   data maps a timeframe to [index, Close], index being the ascending bar
   timestamps on the time axis of df (whose timestamps are its positions). *)

RECURSIVE SumSeq(_)
SumSeq(s) == IF s = <<>> THEN 0 ELSE s[1] + SumSeq(Tail(s))

\* column.dropna().tolist()
ReturnColumn(rows, p) ==
    LET Defined(r) == ~r.returns[p].nan
        kept == SelectSeq(rows, Defined)
    IN  [k \in 1..Len(kept) |-> kept[k].returns[p].v]

VolumeColumn(rows, p) ==
    LET Defined(r) == ~r.volumes[p].nan
        kept == SelectSeq(rows, Defined)
    IN  [k \in 1..Len(kept) |-> kept[k].volumes[p].v]

CountWhere(col, Test(_)) == Cardinality({k \in 1..Len(col) : Test(col[k])})

\* price_history / volume_history of the latest signal (None is the NaN cell)
History(series, signal_date, current_period) ==
    [p \in periods \cup (IF current_period > MaxPeriod THEN {current_period} ELSE {}) |->
        IF p \in periods
        THEN IF (signal_date - 1) + p < Len(series) THEN Num(series[signal_date + p]) ELSE NaNf
        ELSE Num(series[Len(series)])]

\* nx_series = EMA(24) > EMA(89) of Close
NxOfFixed(x) ==
    LET short_close == EwmMean(x, 24)
        long_close == EwmMean(x, 89)
    IN  [i \in 1..Len(x) |-> short_close[i] > long_close[i]]

NxSeries(cl) == NxOfFixed([i \in 1..Len(cl) |-> Fixed(cl[i])])

BoolStr(b) == IF b THEN "True" ELSE "False"

\* index.get_indexer([t], method='pad')[0]: last position with index <= t, else 0
PadLookup(index, t) ==
    LET le == {k \in 1..Len(index) : index[k] <= t}
    IN  IF le = {} THEN 0 ELSE CHOOSE k \in le : \A j \in le : j <= k

\* result['nx_<tf>'] without the test on the length of data[tf]
CurrentNxAnyLength(data, tf) ==
    IF tf \in DOMAIN data /\ Len(data[tf].Close) > 0
    THEN BoolStr(NxSeries(data[tf].Close)[Len(data[tf].Close)])
    ELSE "None"

\* result['nx_<tf>']: the trend flag on the most recent bar of data[tf]
CurrentNx(data, tf) ==
    IF tf \in DOMAIN data /\ Len(data[tf].Close) > 0 /\ Len(data[tf].Close) >= 89
    THEN BoolStr(NxSeries(data[tf].Close)[Len(data[tf].Close)])
    ELSE "None"

\* result['nx_<tf>_signal']: the trend flag at the bar on or before the signal
SignalNx(data, tf, latest_signal_date) ==
    IF latest_signal_date # None /\ tf \in DOMAIN data
       /\ Len(data[tf].Close) > 0 /\ Len(data[tf].Close) >= 89
       /\ PadLookup(data[tf].index, latest_signal_date) # 0
    THEN BoolStr(NxSeries(data[tf].Close)[PadLookup(data[tf].index, latest_signal_date)])
    ELSE "None"

\* the fields every branch sets first
Header(ticker, interval, df, signals) ==
    LET dates == SignalDates(signals)
        latest_signal_date == IF dates = {} THEN None
                              ELSE CHOOSE d \in dates : \A e \in dates : e <= d
    IN  [ticker |-> ticker, interval |-> interval,
         signal_count |-> Cardinality(dates),
         latest_signal |-> latest_signal_date,
         latest_signal_price |-> IF latest_signal_date = None THEN None
                                 ELSE df.Close[latest_signal_date],
         current_time |-> Len(df.Close),
         current_price |-> df.Close[Len(df.Close)]]

\* current_period, price_history and volume_history of the full record
Progress(df, latest_signal_date) ==
    IF latest_signal_date # None
    THEN [current_period |-> Len(df.Close) - latest_signal_date,
          price_history |-> History(df.Close, latest_signal_date,
                                    Len(df.Close) - latest_signal_date),
          volume_history |-> History(df.Volume, latest_signal_date,
                                     Len(df.Close) - latest_signal_date)]
    ELSE [current_period |-> 0, price_history |-> <<>>, volume_history |-> <<>>]

NoProgress == [current_period |-> 0, max_return |-> 0, min_return |-> 0,
               price_history |-> <<>>, volume_history |-> <<>>]

\* the extremes over the offsets after the signal bar only
ExtremesAfterEntry(rows) ==
    LET defined == {kp \in (1..Len(rows)) \X (periods \ {0}) :
                       ~rows[kp[1]].returns[kp[2]].nan}
        values == {rows[kp[1]].returns[kp[2]].v : kp \in defined}
    IN  IF values = {} THEN [max_return |-> 0, min_return |-> 0]
        ELSE [max_return |-> CHOOSE m \in values : \A v \in values : v <= m,
              min_return |-> CHOOSE m \in values : \A v \in values : m <= v]

\* max_return / min_return over every defined return of every row
Extremes(rows) ==
    LET defined == {kp \in (1..Len(rows)) \X periods : ~rows[kp[1]].returns[kp[2]].nan}
        values == {rows[kp[1]].returns[kp[2]].v : kp \in defined}
    IN  IF values = {} THEN [max_return |-> 0, min_return |-> 0]
        ELSE [max_return |-> CHOOSE m \in values : \A v \in values : v <= m,
              min_return |-> CHOOSE m \in values : \A v \in values : m <= v]

\* the row with the greatest date among those with a previous opposite signal
LatestRow(paired) == CHOOSE r \in paired : \A s \in paired : s.date <= r.date

----------------------------------------------------------------------------
(* get_best_CD_interval.py: evaluate_interval *)

IsGainOrFlat(v) == v >= 0
IsGain(v) == v > 0
IsLoss(v) == v < 0

\* the per-period aggregates of the CD record
CdPeriodStats(returns, volumes) ==
    [test_count |-> Len(returns),
     success_rate |-> IF Len(returns) > 0
                      THEN Num(RoundHalfEven(10000 * CountWhere(returns, IsGain), Len(returns)))
                      ELSE NaNf,
     avg_return |-> IF Len(returns) > 0 THEN RoundHalfEven(SumSeq(returns), Len(returns)) ELSE 0,
     avg_volume |-> IF Len(volumes) > 0 THEN Div0(SumSeq(volumes), Len(volumes)) ELSE 0,
     returns |-> returns, volumes |-> volumes]

CdPeriodFields(rows) ==
    LET stats == [p \in periods |-> CdPeriodStats(ReturnColumn(rows, p), VolumeColumn(rows, p))]
    IN  [test_count |-> [p \in periods |-> stats[p].test_count],
         success_rate |-> [p \in periods |-> stats[p].success_rate],
         avg_return |-> [p \in periods |-> stats[p].avg_return],
         avg_volume |-> [p \in periods |-> stats[p].avg_volume],
         returns |-> [p \in periods |-> stats[p].returns],
         volumes |-> [p \in periods |-> stats[p].volumes]]

\* the zero-filled per-period fields of the two short branches (no avg_volume)
CdZeroPeriodFields ==
    [test_count |-> [p \in periods |-> 0],
     success_rate |-> [p \in periods |-> Num(0)],
     avg_return |-> [p \in periods |-> 0],
     returns |-> [p \in periods |-> <<>>],
     volumes |-> [p \in periods |-> <<>>]]

CdZeroCrossFields ==
    [mc_signals_before_cd |-> 0, mc_at_top_price_count |-> 0, mc_at_top_price_rate |-> 0,
     avg_mc_price_percentile |-> 0, avg_mc_decline_after |-> 0, avg_mc_criteria_met |-> 0,
     latest_mc_date |-> None, latest_mc_price |-> None, latest_mc_at_top_price |-> FALSE,
     latest_mc_price_percentile |-> 0, latest_mc_decline_after |-> 0,
     latest_mc_criteria_met |-> 0]

\* the MC signal analysis summary of a non-empty returns_df
CdCrossFields(rows) ==
    LET n == Len(rows)
        paired == {rows[k] : k \in {j \in 1..n : rows[j].prev_mc_date # None}}
        mc_at_top_count == Cardinality({k \in 1..n : rows[k].mc_at_top_price})
        mc_total_count == Cardinality({k \in 1..n : rows[k].prev_mc_date # None})
    IN  [mc_signals_before_cd |-> mc_total_count,
         mc_at_top_price_count |-> mc_at_top_count,
         mc_at_top_price_rate |-> IF mc_total_count > 0
                                  THEN Pct(mc_at_top_count, mc_total_count) ELSE 0,
         avg_mc_price_percentile |->
             RoundHalfEven(SumSeq([k \in 1..n |-> rows[k].mc_price_percentile]), n),
         avg_mc_decline_after |->
             RoundHalfEven(SumSeq([k \in 1..n |-> rows[k].mc_decline_after]), n),
         avg_mc_criteria_met |->
             RoundHalfEven(100 * SumSeq([k \in 1..n |-> rows[k].mc_criteria_met]), n),
         latest_mc_date |-> IF paired = {} THEN None ELSE LatestRow(paired).prev_mc_date,
         latest_mc_price |-> IF paired = {} THEN None ELSE LatestRow(paired).prev_mc_price,
         latest_mc_at_top_price |-> paired # {} /\ LatestRow(paired).mc_at_top_price,
         latest_mc_price_percentile |->
             IF paired = {} THEN 0 ELSE LatestRow(paired).mc_price_percentile,
         latest_mc_decline_after |->
             IF paired = {} THEN 0 ELSE LatestRow(paired).mc_decline_after,
         latest_mc_criteria_met |->
             IF paired = {} THEN 0 ELSE LatestRow(paired).mc_criteria_met]

CdSignalNxFields(data, latest_signal_date) ==
    [nx_1d_signal |-> SignalNx(data, "1d", latest_signal_date),
     nx_30m_signal |-> SignalNx(data, "30m", latest_signal_date),
     nx_1h_signal |-> SignalNx(data, "1h", latest_signal_date),
     nx_5m_signal |-> SignalNx(data, "5m", latest_signal_date)]

CdCurrentNxFields(data) ==
    [nx_1d |-> CurrentNx(data, "1d"), nx_30m |-> CurrentNx(data, "30m"),
     nx_1h |-> CurrentNx(data, "1h"), nx_5m |-> CurrentNx(data, "5m"),
     nx_4h |-> CurrentNx(data, "4h")]

\* if signal_count == 0: ... return result
CdZeroSignalRecord(head, data) ==
    (head @@ [latest_signal |-> None, latest_signal_price |-> None, signal_count |-> 0])
    @@ NoProgress @@ CdZeroPeriodFields @@ CdZeroCrossFields
    @@ CdSignalNxFields(data, None) @@ CdCurrentNxFields(data)

\* if returns_df.empty: ... return result
CdEmptyReturnsRecord(head) ==
    head @@ NoProgress @@ CdZeroPeriodFields @@ CdZeroCrossFields

\* the record built from a non-empty returns_df
CdFullRecord(head, df, rows, data) ==
    head @@ Progress(df, head.latest_signal) @@ CdPeriodFields(rows)
    @@ CdCrossFields(rows) @@ Extremes(rows)
    @@ CdSignalNxFields(data, head.latest_signal) @@ CdCurrentNxFields(data)

CdRecordOf(head, df, rows, data) ==
    IF head.signal_count = 0 THEN CdZeroSignalRecord(head, data)
    ELSE IF rows = <<>> THEN CdEmptyReturnsRecord(head)
    ELSE CdFullRecord(head, df, rows, data)

\* evaluate_interval(ticker, interval, data) with data_frame = data[interval];
\* cd_sig and mc_sig are the series the two indicators return for data_frame
evaluate_interval(ticker, interval, df, cd_sig, mc_sig, data) ==
    IF Len(df.Close) = 0 THEN ReturnsNone
    ELSE CdRecordOf(Header(ticker, interval, df, cd_sig), df,
                    calculate_returns(df, cd_sig, mc_sig, MAX_SIGNALS_THRESHOLD), data)

----------------------------------------------------------------------------
(* get_best_MC_interval.py: evaluate_interval *)

\* the per-period aggregates of the MC record: a decline is the success
McPeriodStats(returns, volumes) ==
    IF Len(returns) > 0
    THEN [test_count |-> Len(returns),
          success_rate |->
              Num(RoundHalfEven(10000 * CountWhere(returns, IsLoss), Len(returns))),
          avg_return |-> RoundHalfEven(SumSeq(returns), Len(returns)),
          avg_volume |-> IF Len(volumes) > 0 THEN Div0(SumSeq(volumes), Len(volumes)) ELSE 0,
          returns |-> returns, volumes |-> volumes]
    ELSE [test_count |-> 0, success_rate |-> Num(0), avg_return |-> 0, avg_volume |-> 0,
          returns |-> <<>>, volumes |-> <<>>]

McPeriodFields(rows) ==
    LET stats == [p \in periods |-> McPeriodStats(ReturnColumn(rows, p), VolumeColumn(rows, p))]
    IN  [test_count |-> [p \in periods |-> stats[p].test_count],
         success_rate |-> [p \in periods |-> stats[p].success_rate],
         avg_return |-> [p \in periods |-> stats[p].avg_return],
         avg_volume |-> [p \in periods |-> stats[p].avg_volume],
         returns |-> [p \in periods |-> stats[p].returns],
         volumes |-> [p \in periods |-> stats[p].volumes]]

McZeroPeriodFields ==
    [test_count |-> [p \in periods |-> 0],
     success_rate |-> [p \in periods |-> Num(0)],
     avg_return |-> [p \in periods |-> 0],
     avg_volume |-> [p \in periods |-> 0],
     returns |-> [p \in periods |-> <<>>],
     volumes |-> [p \in periods |-> <<>>]]

McZeroCrossFields ==
    [cd_signals_before_mc |-> 0, cd_at_bottom_price_count |-> 0, cd_at_bottom_price_rate |-> 0,
     avg_cd_price_percentile |-> 0, avg_cd_increase_after |-> 0, avg_cd_criteria_met |-> 0,
     latest_cd_date |-> None, latest_cd_price |-> None, latest_cd_at_bottom_price |-> FALSE,
     latest_cd_price_percentile |-> 0, latest_cd_increase_after |-> 0,
     latest_cd_criteria_met |-> 0]

McCrossFields(rows) ==
    LET n == Len(rows)
        paired == {rows[k] : k \in {j \in 1..n : rows[j].prev_cd_date # None}}
        cd_at_bottom_count == Cardinality({k \in 1..n : rows[k].cd_at_bottom_price})
        cd_total_count == Cardinality({k \in 1..n : rows[k].prev_cd_date # None})
    IN  [cd_signals_before_mc |-> cd_total_count,
         cd_at_bottom_price_count |-> cd_at_bottom_count,
         cd_at_bottom_price_rate |-> IF cd_total_count > 0
                                     THEN Pct(cd_at_bottom_count, cd_total_count) ELSE 0,
         avg_cd_price_percentile |->
             RoundHalfEven(SumSeq([k \in 1..n |-> rows[k].cd_price_percentile]), n),
         avg_cd_increase_after |->
             RoundHalfEven(SumSeq([k \in 1..n |-> rows[k].cd_increase_after]), n),
         avg_cd_criteria_met |->
             RoundHalfEven(100 * SumSeq([k \in 1..n |-> rows[k].cd_criteria_met]), n),
         latest_cd_date |-> IF paired = {} THEN None ELSE LatestRow(paired).prev_cd_date,
         latest_cd_price |-> IF paired = {} THEN None ELSE LatestRow(paired).prev_cd_price,
         latest_cd_at_bottom_price |-> paired # {} /\ LatestRow(paired).cd_at_bottom_price,
         latest_cd_price_percentile |->
             IF paired = {} THEN 0 ELSE LatestRow(paired).cd_price_percentile,
         latest_cd_increase_after |->
             IF paired = {} THEN 0 ELSE LatestRow(paired).cd_increase_after,
         latest_cd_criteria_met |->
             IF paired = {} THEN 0 ELSE LatestRow(paired).cd_criteria_met]

McSignalNxFields(data, latest_signal_date) ==
    [nx_1d_signal |-> SignalNx(data, "1d", latest_signal_date),
     nx_1h_signal |-> SignalNx(data, "1h", latest_signal_date)]

McCurrentNxFields(data) ==
    [nx_1d |-> CurrentNx(data, "1d"), nx_1h |-> CurrentNx(data, "1h"),
     nx_4h |-> CurrentNx(data, "4h")]

McZeroSignalRecord(head, data) ==
    (head @@ [latest_signal |-> None, latest_signal_price |-> None, signal_count |-> 0])
    @@ NoProgress @@ McZeroPeriodFields @@ McZeroCrossFields
    @@ McSignalNxFields(data, None) @@ McCurrentNxFields(data)

McEmptyReturnsRecord(head) ==
    head @@ NoProgress @@ McZeroPeriodFields @@ McZeroCrossFields

McFullRecord(head, df, rows, data) ==
    head @@ Progress(df, head.latest_signal) @@ McPeriodFields(rows)
    @@ McCrossFields(rows) @@ Extremes(rows)
    @@ McSignalNxFields(data, head.latest_signal) @@ McCurrentNxFields(data)

McRecordOf(head, df, rows, data) ==
    IF head.signal_count = 0 THEN McZeroSignalRecord(head, data)
    ELSE IF rows = <<>> THEN McEmptyReturnsRecord(head)
    ELSE McFullRecord(head, df, rows, data)

mc_evaluate_interval(ticker, interval, df, mc_sig, cd_sig, data) ==
    IF Len(df.Close) = 0 THEN ReturnsNone
    ELSE McRecordOf(Header(ticker, interval, df, mc_sig), df,
                    mc_calculate_returns(df, mc_sig, cd_sig, MAX_SIGNALS_THRESHOLD), data)

----------------------------------------------------------------------------
(* utils.py: get_trading_day_window_end.  A timestamp is a number of slots,
   SlotsPerDay of them to a calendar day; a date is a number of days.
   all_ticker_data maps a ticker to its frames, each [index, Close,
   comparable]; comparable is false for an index whose comparison with the
   start timestamp raises. *)

\* intraday resolution of the timestamps
SlotsPerDay == 2

\* pd.NaT, the result of to_datetime(errors="coerce") on an unparseable value
NaT == -1

\* Timestamp.date() / Series.dt.date
DateOf(ts) == IF ts = NaT THEN NaT ELSE ts \div SlotsPerDay

\* pd.Timestamp(date): midnight of the day
Midnight(date) == date * SlotsPerDay

\* Index.searchsorted(ts), side='left', as a 0-based position
searchsorted(index, ts) == Cardinality({k \in 1..Len(index) : index[k] < ts})

\* the window end the claim C9 states: the fallback whenever two trading days
\* cannot be advanced
TradingWindowEndOrFallback(start_date, df_daily, days) ==
    LET trading_dates == df_daily.index
        idx == searchsorted(trading_dates, Midnight(start_date))
        target_idx == idx + (days - 1)
    IN  IF Len(trading_dates) = 0 \/ ~df_daily.comparable \/ idx >= Len(trading_dates)
        THEN start_date + 3
        ELSE IF target_idx < Len(trading_dates)
        THEN DateOf(trading_dates[target_idx + 1])
        ELSE start_date + 3

\* the body of get_trading_day_window_end once the daily frame is found
TradingWindowEnd(start_date, df_daily, days) ==
    LET trading_dates == df_daily.index
        idx == searchsorted(trading_dates, Midnight(start_date))
        target_idx == idx + (days - 1)
    IN  IF Len(trading_dates) = 0 \/ ~df_daily.comparable \/ idx >= Len(trading_dates)
        THEN start_date + 3
        ELSE IF target_idx < Len(trading_dates)
        THEN DateOf(trading_dates[target_idx + 1])
        ELSE DateOf(trading_dates[Len(trading_dates)])

get_trading_day_window_end(start_date, ticker, atd, days) ==
    IF ticker \notin DOMAIN atd \/ "1d" \notin DOMAIN atd[ticker]
    THEN start_date + 3
    ELSE TradingWindowEnd(start_date, atd[ticker]["1d"], days)

----------------------------------------------------------------------------
(* get_resonance_signal_CD.py: identify_1234 and identify_5230.  The data
   argument is [kind, rows]: kind says whether it is a list, a DataFrame or
   something else, rows are the signal records, each a record that may lack
   fields; signal_date is [valid, at], at being the timestamp the text
   parses to.  The outcome is [raised, rows]. *)

Returned(rows) == [raised |-> FALSE, rows |-> rows]
Raised == [raised |-> TRUE, rows |-> <<>>]

\* df.columns of pd.DataFrame(list of dicts): the union of the keys
Columns(rows) == UNION {DOMAIN rows[k] : k \in 1..Len(rows)}

\* pd.to_datetime(df["signal_date"], errors="coerce") of one cell
ToDatetime(r) ==
    IF "signal_date" \in DOMAIN r /\ r.signal_date.valid THEN r.signal_date.at ELSE NaT

\* one row of df after the parse, with the date column; an absent cell is NaN
ParsedRow(r) ==
    [ticker |-> IF "ticker" \in DOMAIN r THEN r.ticker ELSE "NaN",
     interval |-> IF "interval" \in DOMAIN r THEN r.interval ELSE "NaN",
     signal_date |-> ToDatetime(r),
     date |-> DateOf(ToDatetime(r)),
     signal_price |-> IF "signal_price" \in DOMAIN r THEN r.signal_price ELSE None]

\* df[df["interval"].isin(required_intervals)] with the date column added
FamilyRows(rows, required_intervals) ==
    LET InFamily(r) == r.interval \in required_intervals
    IN  SelectSeq([k \in 1..Len(rows) |-> ParsedRow(rows[k])], InFamily)

\* Series.unique(): the values in order of first appearance
RECURSIVE Unique(_)
Unique(s) ==
    IF s = <<>> THEN <<>>
    ELSE LET earlier == Unique(SubSeq(s, 1, Len(s) - 1))
         IN  IF \E k \in 1..Len(earlier) : earlier[k] = s[Len(s)] THEN earlier
             ELSE Append(earlier, s[Len(s)])

\* the rows of the broad window [date, date + 10 days)
WindowDataBroad(df, date) ==
    LET InBroad(r) == r.date # NaT /\ r.date >= date /\ r.date < date + 10
    IN  SelectSeq(df, InBroad)

\* the rows of one ticker up to the precise window end, that day included
TickerData(window_data_broad, ticker, precise_end_date) ==
    LET InPrecise(r) == ticker # "NaN" /\ r.ticker = ticker /\ r.date < precise_end_date + 1
    IN  SelectSeq(window_data_broad, InPrecise)

\* the interval magnitudes: int(s.replace('h', '')) / int(s.replace('m', ''))
Magnitude(s) ==
    CASE s = "1h" -> 1 [] s = "2h" -> 2 [] s = "3h" -> 3 [] s = "4h" -> 4
      [] s = "5m" -> 5 [] s = "10m" -> 10 [] s = "15m" -> 15 [] s = "30m" -> 30

\* the row of the most recent signal: idxmax takes the first of equal maxima
MostRecent(ticker_data) ==
    LET latest == CHOOSE k \in 1..Len(ticker_data) :
                      /\ \A j \in 1..Len(ticker_data) :
                            ticker_data[j].signal_date <= ticker_data[k].signal_date
                      /\ \A j \in 1..(k - 1) :
                            ticker_data[j].signal_date < ticker_data[k].signal_date
    IN  ticker_data[latest]

\* the candidate a window yields
Candidate(ticker, ticker_data, resonating_intervals_set) ==
    [ticker |-> ticker,
     date |-> DateOf(MostRecent(ticker_data).signal_date),
     intervals |-> Ascending({Magnitude(s) : s \in resonating_intervals_set}),
     signal_price |-> MostRecent(ticker_data).signal_price]

\* the variant in which a later window replaces the candidate of its key
RecordLatest(found, candidate) ==
    LET Other(c) == <<c.ticker, c.date>> # <<candidate.ticker, candidate.date>>
    IN  [breakout_candidates |-> Append(SelectSeq(found.breakout_candidates, Other), candidate),
         processed_combinations |->
             found.processed_combinations \cup {<<candidate.ticker, candidate.date>>}]

\* if combination not in processed_combinations: add it and append the candidate
Record(found, candidate) ==
    IF <<candidate.ticker, candidate.date>> \in found.processed_combinations THEN found
    ELSE [breakout_candidates |-> Append(found.breakout_candidates, candidate),
          processed_combinations |->
              found.processed_combinations \cup {<<candidate.ticker, candidate.date>>}]

\* the variant of the ticker loop body that is content with 2 intervals
CheckTickerAtTwo(found, ticker_data, ticker, required_intervals) ==
    LET unique_intervals == {ticker_data[k].interval : k \in 1..Len(ticker_data)}
    IN  IF Cardinality(unique_intervals \cap required_intervals) >= 2
        THEN Record(found, Candidate(ticker, ticker_data,
                                     unique_intervals \cap required_intervals))
        ELSE found

\* the body of the ticker loop for one (date, ticker)
CheckTicker(found, ticker_data, ticker, required_intervals) ==
    LET unique_intervals == {ticker_data[k].interval : k \in 1..Len(ticker_data)}
    IN  IF Cardinality(unique_intervals \cap required_intervals) >= 3
        THEN Record(found, Candidate(ticker, ticker_data,
                                     unique_intervals \cap required_intervals))
        ELSE found

\* the ticker loop of one date
RECURSIVE CheckTickers(_, _, _, _, _, _)
CheckTickers(found, tickers, window_data_broad, date, atd, required_intervals) ==
    IF tickers = <<>> THEN found
    ELSE CheckTickers(
             CheckTicker(found,
                         TickerData(window_data_broad, Head(tickers),
                                    get_trading_day_window_end(date, Head(tickers), atd, 3)),
                         Head(tickers), required_intervals),
             Tail(tickers), window_data_broad, date, atd, required_intervals)

TickersOf(window_data_broad) ==
    Unique([k \in 1..Len(window_data_broad) |-> window_data_broad[k].ticker])

\* the date loop over sorted(df['date'].unique()); the window of NaT is empty
RECURSIVE CheckDates(_, _, _, _, _)
CheckDates(found, unique_dates, df, atd, required_intervals) ==
    IF unique_dates = <<>> THEN found
    ELSE CheckDates(
             CheckTickers(found, TickersOf(WindowDataBroad(df, Head(unique_dates))),
                          WindowDataBroad(df, Head(unique_dates)), Head(unique_dates),
                          atd, required_intervals),
             Tail(unique_dates), df, atd, required_intervals)

\* the order of sort_values(by=['date', 'ticker'], ascending=[False, True])
TickerRank(t) == CASE t = "A" -> 1 [] t = "B" -> 2 [] OTHER -> 3

SortsBefore(a, b) ==
    a.date > b.date \/ (a.date = b.date /\ TickerRank(a.ticker) < TickerRank(b.ticker))

RECURSIVE SortCandidates(_)
SortCandidates(s) ==
    IF s = <<>> THEN <<>>
    ELSE LET first == CHOOSE k \in 1..Len(s) :
                          \A j \in 1..Len(s) : j = k \/ SortsBefore(s[k], s[j])
         IN  <<s[first]>> \o
             SortCandidates(SubSeq(s, 1, first - 1) \o SubSeq(s, first + 1, Len(s)))

\* ticker in all_ticker_data and tf in all_ticker_data[ticker] and not empty
HasFrame(atd, ticker, tf) ==
    /\ ticker \in DOMAIN atd
    /\ tf \in DOMAIN atd[ticker]
    /\ Len(atd[ticker][tf].index) > 0

\* the current_price and current_time columns
WithCurrent(candidate, atd) ==
    IF HasFrame(atd, candidate.ticker, "1d")
    THEN candidate @@
         [current_price |-> atd[candidate.ticker]["1d"].Close[
                                Len(atd[candidate.ticker]["1d"].Close)],
          current_time |-> atd[candidate.ticker]["1d"].index[
                               Len(atd[candidate.ticker]["1d"].index)]]
    ELSE candidate @@ [current_price |-> None, current_time |-> None]

\* dict_nx_<tf>[ticker].get(date, None): the trend flag of the last bar of
\* data[tf] on the date, computed from the whole Close series whatever its length
SignalFlag(atd, ticker, tf, date) ==
    IF ~HasFrame(atd, ticker, tf) THEN "None"
    ELSE LET index == atd[ticker][tf].index
             on_date == {k \in 1..Len(index) : DateOf(index[k]) = date}
         IN  IF on_date = {} THEN "None"
             ELSE BoolStr(NxSeries(atd[ticker][tf].Close)[
                              CHOOSE k \in on_date : \A j \in on_date : j <= k])

\* get_nx_value(interval, key) of calculate_current_nx_values
get_nx_value(atd, ticker, interval) ==
    IF interval \in DOMAIN atd[ticker] /\ Len(atd[ticker][interval].index) > 0
    THEN BoolStr(NxSeries(atd[ticker][interval].Close)[Len(atd[ticker][interval].Close)])
    ELSE "None"

calculate_current_nx_values(ticker, atd) ==
    IF ticker \notin DOMAIN atd
    THEN [nx_1d |-> "None", nx_1h |-> "None", nx_30m |-> "None", nx_5m |-> "None"]
    ELSE [nx_1d |-> get_nx_value(atd, ticker, "1d"), nx_1h |-> get_nx_value(atd, ticker, "1h"),
          nx_30m |-> get_nx_value(atd, ticker, "30m"), nx_5m |-> get_nx_value(atd, ticker, "5m")]

\* the trend columns of a row: the two flags at the row's date of the
\* function at hand, then nx_1d, nx_1h and nx_30m of the current values
WithNx(row, atd, trend_timeframes) ==
    LET current == calculate_current_nx_values(row.ticker, atd)
    IN  row @@
        (IF "1d" \in trend_timeframes
         THEN [nx_1d_signal |-> SignalFlag(atd, row.ticker, "1d", row.date),
               nx_30m_signal |-> SignalFlag(atd, row.ticker, "30m", row.date)]
         ELSE [nx_1h_signal |-> SignalFlag(atd, row.ticker, "1h", row.date),
               nx_5m_signal |-> SignalFlag(atd, row.ticker, "5m", row.date)])
        @@ [nx_1d |-> current.nx_1d, nx_1h |-> current.nx_1h, nx_30m |-> current.nx_30m]

\* from the sort to the return: assigning the two current columns raises when
\* there is no candidate; tickers without the trend data are dropped; the
\* rows that stay get their trend columns
Finish(breakout_candidates, atd, trend_timeframes) ==
    LET sorted == SortCandidates(breakout_candidates)
        Valid(c) == \A tf \in trend_timeframes : HasFrame(atd, c.ticker, tf)
        kept == SelectSeq([k \in 1..Len(sorted) |-> WithCurrent(sorted[k], atd)], Valid)
    IN  IF breakout_candidates = <<>> THEN Raised
        ELSE Returned([k \in 1..Len(kept) |-> WithNx(kept[k], atd, trend_timeframes)])

NothingFound == [breakout_candidates |-> <<>>, processed_combinations |-> {}]

\* the function from the interval filter on; sorting dates of which some are
\* NaT raises or not with the version of pandas
Aggregate(df, has_ticker, atd, required_intervals, trend_timeframes) ==
    LET dates == {df[k].date : k \in 1..Len(df)}
        found == CheckDates(NothingFound, Ascending(dates \ {NaT}), df, atd,
                            required_intervals)
    IN  IF df # <<>> /\ ~has_ticker THEN {Raised}
        ELSE IF NaT \in dates /\ dates # {NaT}
        THEN {Raised, Finish(found.breakout_candidates, atd, trend_timeframes)}
        ELSE {Finish(found.breakout_candidates, atd, trend_timeframes)}

\* the outcomes of either function
Identify(data, atd, required_intervals, trend_timeframes) ==
    IF data.kind \notin {"list", "DataFrame"} THEN {Returned(<<>>)}
    ELSE IF data.rows = <<>> \/ Columns(data.rows) = {} THEN {Returned(<<>>)}
    ELSE IF "interval" \notin Columns(data.rows) THEN {Raised}
    ELSE IF "signal_date" \notin Columns(data.rows) THEN {Raised}
    ELSE Aggregate(FamilyRows(data.rows, required_intervals),
                   "ticker" \in Columns(data.rows), atd,
                   required_intervals, trend_timeframes)

identify_1234(data, atd) == Identify(data, atd, {"1h", "2h", "3h", "4h"}, {"1d", "30m"})

identify_5230(data, atd) == Identify(data, atd, {"5m", "10m", "15m", "30m"}, {"1h"})

----------------------------------------------------------------------------
(* data_loader.py: transform_1h_data and transform_5m_data.  A timestamp is
   a number of minutes, MinutesPerDay of them to a calendar day; a frame is a
   sequence of bars [t, nan, Open, High, Low, Close, Volume], nan marking the
   row of a bin without bars, whose prices are NaN. *)

MinutesPerDay == 1440
\* "09:30" and "16:00" as minutes of the day
SessionOpen == 570
SessionClose == 960

DayOfMinute(t) == t \div MinutesPerDay
TimeOfDay(t) == t % MinutesPerDay

\* df.sort_index(inplace=True)
RECURSIVE SortIndex(_)
SortIndex(df) ==
    IF df = <<>> THEN <<>>
    ELSE LET first == CHOOSE k \in 1..Len(df) :
                          /\ \A j \in 1..Len(df) : df[k].t <= df[j].t
                          /\ \A j \in 1..(k - 1) : df[j].t # df[k].t
         IN  <<df[first]>> \o SortIndex(SubSeq(df, 1, first - 1) \o SubSeq(df, first + 1, Len(df)))

\* the bars of every time of the day
any_time(df) == df

\* df.between_time("09:30", "16:00"): both ends included
between_time(df) ==
    LET InSession(b) == TimeOfDay(b.t) >= SessionOpen /\ TimeOfDay(b.t) <= SessionClose
    IN  SelectSeq(df, InSession)

\* the rule string transform_5m_data hands to resample
ReplaceMin(new_interval) ==
    CASE new_interval = "5m" -> "5min" [] new_interval = "10m" -> "10min"
      [] new_interval = "15m" -> "15min" [] new_interval = "30m" -> "30min"
      [] OTHER -> new_interval

\* the length of the bins of a rule, in minutes
RuleMinutes(rule) ==
    CASE rule = "5min" -> 5 [] rule = "10min" -> 10 [] rule = "15min" -> 15
      [] rule = "30min" -> 30 [] rule = "1h" -> 60 [] rule = "2h" -> 120
      [] rule = "3h" -> 180 [] rule = "4h" -> 240

\* the right edge of the bin of t
BinOfRight(t, origin, span) ==
    origin + SessionOpen + ((t - origin - SessionOpen) \div span) * span + span

\* the left edge of the bin of t: bins start at origin + offset, the origin
\* being midnight of the first bar's day and the offset 9h30min
BinOf(t, origin, span) ==
    origin + SessionOpen + ((t - origin - SessionOpen) \div span) * span

\* .agg(Open first, High max, Low min, Close last, Volume sum) of one bin
AggregateBin(label, members) ==
    IF members = <<>>
    THEN [t |-> label, nan |-> TRUE, Open |-> 0, High |-> 0, Low |-> 0, Close |-> 0,
          Volume |-> 0]
    ELSE [t |-> label, nan |-> FALSE,
          Open |-> members[1].Open,
          High |-> SeqMax([k \in 1..Len(members) |-> members[k].High], 1, Len(members)),
          Low |-> SeqMin([k \in 1..Len(members) |-> members[k].Low], 1, Len(members)),
          Close |-> members[Len(members)].Close,
          Volume |-> SumSeq([k \in 1..Len(members) |-> members[k].Volume])]

\* resample_xh(daily_df): one row per bin from the first bar's to the last bar's
resample_xh(daily_df, span) ==
    LET origin == DayOfMinute(daily_df[1].t) * MinutesPerDay
        first == BinOf(daily_df[1].t, origin, span)
        last == BinOf(daily_df[Len(daily_df)].t, origin, span)
        count == (last - first) \div span + 1
        Members(label) ==
            LET InBin(b) == BinOf(b.t, origin, span) = label IN SelectSeq(daily_df, InBin)
    IN  [k \in 1..count |-> AggregateBin(first + (k - 1) * span, Members(first + (k - 1) * span))]

\* the rows of every bin, those without bars included
keepna(bar_xh) == bar_xh

\* bar_xh.dropna(subset=["Open","High","Low","Close"], how="any")
dropna(bar_xh) == LET Defined(b) == ~b.nan IN SelectSeq(bar_xh, Defined)

\* the bars of one day of df.groupby(df.index.date)
DailyData(df, date) == LET OnDate(b) == DayOfMinute(b.t) = date IN SelectSeq(df, OnDate)

\* the body the two transforms share, from the sort on
ResampleByDay(df, span) ==
    LET session == between_time(SortIndex(df))
        dates == Ascending({DayOfMinute(session[k].t) : k \in 1..Len(session)})
        RECURSIVE Concat(_)
        Concat(k) ==
            IF k > Len(dates) THEN <<>>
            ELSE dropna(resample_xh(DailyData(session, dates[k]), span)) \o Concat(k + 1)
    IN  IF df = <<>> THEN <<>> ELSE SortIndex(Concat(1))

transform_1h_data(df_1h, new_interval) == ResampleByDay(df_1h, RuleMinutes(new_interval))

transform_5m_data(df_5m, new_interval) ==
    ResampleByDay(df_5m, RuleMinutes(ReplaceMin(new_interval)))

----------------------------------------------------------------------------
(* The data source of evaluate_interval (lines 232-268 of both backtesters)
   and data_loader.download_stock_data.  stock maps a provider interval to
   what yf.Ticker(ticker).history answers for it: [raised, rows]; frames are
   sequences of bars as in the transforms; day 0 is a Sunday. *)

\* the label of the bin of t under resample('W'): the first Sunday midnight
\* on or after t
WeekEnd(t) == ((t + 7 * MinutesPerDay - 1) \div (7 * MinutesPerDay)) * (7 * MinutesPerDay)

\* daily.resample('W').agg(Open first, High max, Low min, Close last, Volume sum):
\* one row per week from the first bar's to the last bar's
resample_weekly(daily) ==
    LET first == WeekEnd(daily[1].t)
        last == WeekEnd(daily[Len(daily)].t)
        count == (last - first) \div (7 * MinutesPerDay) + 1
        Members(label) == LET InBin(b) == WeekEnd(b.t) = label IN SelectSeq(daily, InBin)
    IN  [k \in 1..count |->
            AggregateBin(first + (k - 1) * 7 * MinutesPerDay,
                         Members(first + (k - 1) * 7 * MinutesPerDay))]

\* stock.history(...) inside a try that turns an error into an empty frame
HistoryOrEmpty(stock, base) == IF stock[base].raised THEN <<>> ELSE stock[base].rows

\* download_stock_data(ticker, end_date=None)
download_stock_data(ticker, stock) ==
    LET base == [iv \in {"5m", "1h", "1d"} |-> HistoryOrEmpty(stock, iv)]
        minutes == IF base["5m"] = <<>> THEN <<>>
                   ELSE [iv \in {"10m", "15m", "30m"} |-> transform_5m_data(base["5m"], iv)]
        hours == IF base["1h"] = <<>> THEN <<>>
                 ELSE [iv \in {"2h", "3h", "4h"} |-> transform_1h_data(base["1h"], iv)]
        weekly == [iv \in {"1w"} |->
                      IF base["1d"] = <<>> THEN <<>> ELSE resample_weekly(base["1d"])]
    IN  base @@ minutes @@ hours @@ weekly

\* what the first part of evaluate_interval leaves: the data_frame, or the
\* return of None, and the calls made to the provider on the way
Selected(data_frame, calls) ==
    [returned |-> IF data_frame = <<>> THEN "None" ELSE "frame",
     data_frame |-> data_frame, calls |-> calls]

\* if data and interval in data and not data[interval].empty
Injected(data, interval) ==
    data # <<>> /\ interval \in DOMAIN data /\ data[interval] # <<>>

\* lines 232-268: the injected frame, else the weekly resample of the injected
\* or fetched daily frame, else the frame of a download
SelectDataFrame(ticker, interval, data, stock) ==
    IF Injected(data, interval) THEN Selected(data[interval], {})
    ELSE IF interval = "1w"
    THEN IF Injected(data, "1d") THEN Selected(resample_weekly(data["1d"]), {})
         ELSE IF stock["1d"].raised \/ stock["1d"].rows = <<>>
         THEN Selected(<<>>, {"yf.Ticker.history"})
         ELSE Selected(resample_weekly(stock["1d"].rows), {"yf.Ticker.history"})
    ELSE IF interval \in {"5m", "10m", "15m", "30m", "1h", "2h", "3h", "4h"}
    THEN IF interval \in DOMAIN download_stock_data(ticker, stock)
         THEN Selected(download_stock_data(ticker, stock)[interval], {"download_stock_data"})
         ELSE Selected(<<>>, {"download_stock_data"})
    ELSE IF interval = "1d"
    THEN IF stock["1d"].raised THEN Selected(<<>>, {"yf.Ticker.history"})
         ELSE Selected(stock["1d"].rows, {"yf.Ticker.history"})
    ELSE Selected(<<>>, {})

\* a frame of bars as the columns evaluate_interval reads
ColumnsOf(rows) ==
    [Close |-> [k \in 1..Len(rows) |-> rows[k].Close],
     High |-> [k \in 1..Len(rows) |-> rows[k].High],
     Low |-> [k \in 1..Len(rows) |-> rows[k].Low],
     Volume |-> [k \in 1..Len(rows) |-> rows[k].Volume]]

\* the data dictionary on the time axis of data_frame, on which the k-th
\* bar of data_frame has the timestamp k: 1 + the number of bars before t
OnAxisOf(data_frame, data) ==
    [tf \in DOMAIN data |->
        [index |-> [k \in 1..Len(data[tf]) |->
                       1 + Cardinality({j \in 1..Len(data_frame) :
                                           data_frame[j].t < data[tf][k].t})],
         Close |-> [k \in 1..Len(data[tf]) |-> data[tf][k].Close]]]

\* get_best_CD_interval.evaluate_interval(ticker, interval, data) from its
\* first line: [result, calls]
cd_evaluate_from_source(ticker, interval, data, stock) ==
    LET sel == SelectDataFrame(ticker, interval, data, stock)
        df == ColumnsOf(sel.data_frame)
    IN  [calls |-> sel.calls,
         result |-> IF sel.returned = "None" THEN ReturnsNone
                    ELSE evaluate_interval(ticker, interval, df,
                                           compute_cd_indicator(df.Close),
                                           compute_mc_indicator(df.Close),
                                           OnAxisOf(sel.data_frame, data))]

\* get_best_MC_interval.evaluate_interval(ticker, interval, data) from its
\* first line: [result, calls]
mc_evaluate_from_source(ticker, interval, data, stock) ==
    LET sel == SelectDataFrame(ticker, interval, data, stock)
        df == ColumnsOf(sel.data_frame)
    IN  [calls |-> sel.calls,
         result |-> IF sel.returned = "None" THEN ReturnsNone
                    ELSE mc_evaluate_interval(ticker, interval, df,
                                              compute_mc_indicator(df.Close),
                                              compute_cd_indicator(df.Close),
                                              OnAxisOf(sel.data_frame, data))]

----------------------------------------------------------------------------
(* Bounded inputs *)

\* Close prices a bar may take
Prices == {1, 9, 10, 15}

\* Opening bars that take the MACD histogram through a down/up cycle
Openings == {<<10, 3, 19, 1>>, <<10, 17, 1, 19>>}

\* Longest run of free bars after the opening
MaxTail == 3

RECURSIVE SeqsUpTo(_, _)
SeqsUpTo(S, n) ==
    IF n = 0 THEN {<<>>}
    ELSE LET shorter == SeqsUpTo(S, n - 1)
         IN  shorter \cup {Append(s, e) : s \in {t \in shorter : Len(t) = n - 1}, e \in S}

CloseSeries == {o \o t : o \in Openings, t \in SeqsUpTo(Prices, MaxTail)}

----------------------------------------------------------------------------
(* Indicator Engine scenario: both indicators are computed on one series *)

\* the Bar sequence under evaluation as one frame
Df == [Close |-> close, High |-> high, Low |-> low, Volume |-> volume]

\* values of the variables a scenario does not use
NoBacktest ==
    /\ timeframe = "1d"
    /\ frames = <<>>
    /\ returns_df = <<>>
    /\ result = ReturnsNone

NoMarket ==
    /\ provider = "none"
    /\ fetched = {}

NoResampling ==
    /\ bars_in = <<>>
    /\ target = "none"
    /\ bars_out = <<>>
    /\ bars_again = <<>>

NoRunStore ==
    /\ runs = {}
    /\ results = {}
    /\ run_seq = 0
    /\ job = <<>>
    /\ last_call = <<>>

NoCrossing ==
    /\ cross_call = <<>>
    /\ cross_eval = <<>>

NoRolling ==
    /\ breakthrough = <<>>
    /\ buy_signals = <<>>
    /\ cd_1234 = <<>>

NoLookback ==
    /\ look_series = <<>>
    /\ look_call = <<>>
    /\ look_out = <<>>

NoEngine ==
    /\ clock = 0
    /\ heap = <<>>
    /\ jobs = <<>>
    /\ current_job_id = None
    /\ threads = <<>>
    /\ start_call = <<>>

NoLater == NoCrossing /\ NoRolling /\ NoLookback /\ NoEngine

NoElsewhere == NoMarket /\ NoResampling /\ NoRunStore /\ NoLater

NoResonance ==
    /\ signal_records = {}
    /\ all_ticker_data = <<>>
    /\ window_start = None
    /\ window_end = None
    /\ breakout = Returned(<<>>)

InitInd ==
    /\ pc = "bars"
    /\ close \in CloseSeries
    /\ high = close
    /\ low = close
    /\ volume = [i \in 1..Len(close) |-> 1]
    /\ cd_signals = <<>>
    /\ mc_signals = <<>>
    /\ NoBacktest
    /\ NoResonance
    /\ NoElsewhere

ComputeCd ==
    /\ pc = "bars"
    /\ cd_signals' = compute_cd_indicator(close)
    /\ pc' = "cd"
    /\ UNCHANGED <<bar_vars, mc_signals, backtest, resonance, elsewhere>>

ComputeMc ==
    /\ pc = "cd"
    /\ mc_signals' = compute_mc_indicator(close)
    /\ pc' = "done"
    /\ UNCHANGED <<bar_vars, cd_signals, backtest, resonance, elsewhere>>

NextInd == ComputeCd \/ ComputeMc

SpecInd == InitInd /\ [][NextInd]_vars

----------------------------------------------------------------------------
(* C1: edge-triggering.  compute_cd_indicator and compute_mc_indicator never
   return true at both bar i-1 and bar i; a signal at i is the first bar of a
   run of the one-bar-delayed confirmation, and that confirmation at i needs
   the raw trigger (A OR B) to have held at bar i-1. *)
EdgeOf(sig, confirm, raw) ==
    \A i \in 1..Len(sig) :
        sig[i] = "True" =>
            /\ i > 1
            /\ sig[i - 1] # "True"
            /\ confirm[i] /\ ~confirm[i - 1]
            /\ raw[i - 1]

C1_EdgeTriggered ==
    pc = "done" =>
        /\ Len(cd_signals) = Len(close) /\ Len(mc_signals) = Len(close)
        /\ EdgeOf(cd_signals, cd_jjj(close), cd_ccc(close))
        /\ EdgeOf(mc_signals, mc_dbjg(close), mc_dbbl(close))

\* a series on which both a CD run and an MC-free tail occur: the CD signal
\* fires although the confirmation holds on two consecutive bars
C1_Witness ==
    /\ pc = "done"
    /\ \E i \in 2..Len(close) :
          /\ cd_jjj(close)[i] /\ cd_jjj(close)[i - 1]
          /\ \E k \in 1..Len(close) : cd_signals[k] = "True"

----------------------------------------------------------------------------
(* Return calculation scenario: calculate_returns of either backtester is
   applied to a Bar sequence and the two signal series computed for it.  The
   series are inputs here: an edge-triggered series of any density, with an
   undefined first value as a warm-up mask leaves it. *)

\* Longest Bar sequence of the scenario
MaxBars == 16

\* Close of bar i: a fixed zigzag
ZigZag(i) == 20 + ((i * 7) % 5) - (i % 3)

\* boolean series of length n without two consecutive true values
EdgeSeries(n) ==
    {s \in [1..n -> {"True", "False"}] :
        \A i \in 2..n : ~(s[i] = "True" /\ s[i - 1] = "True")}

\* the series after the first value is masked
MaskFirst(s, lead) == [i \in 1..Len(s) |-> IF i = 1 /\ s[i] = "False" THEN lead ELSE s[i]]

\* the sparse series of the opposite signal
Sparse(n) == [i \in 1..n |-> IF i % 4 = 2 THEN "True" ELSE "False"]

InitRet ==
    /\ pc = "signals"
    /\ \E n \in 1..MaxBars :
          /\ close = [i \in 1..n |-> ZigZag(i)]
          /\ high = [i \in 1..n |-> ZigZag(i) + 1]
          /\ low = [i \in 1..n |-> ZigZag(i) - 1]
          /\ volume = [i \in 1..n |-> 100 + i]
          /\ \E s \in EdgeSeries(n), lead \in {"False", "NaN"}, under_test \in {"CD", "MC"} :
                /\ cd_signals = IF under_test = "CD" THEN MaskFirst(s, lead)
                                ELSE MaskFirst(Sparse(n), lead)
                /\ mc_signals = IF under_test = "MC" THEN MaskFirst(s, lead)
                                ELSE MaskFirst(Sparse(n), lead)
    /\ timeframe = "1d"
    /\ frames = <<>>
    /\ returns_df = <<>>
    /\ result = ReturnsNone
    /\ NoResonance
    /\ NoElsewhere

\* get_best_CD_interval.calculate_returns(data, cd_signals)
CalculateReturnsCd ==
    /\ pc = "signals"
    /\ returns_df' = calculate_returns(Df, cd_signals, mc_signals, MAX_SIGNALS_THRESHOLD)
    /\ pc' = "cd_returns"
    /\ UNCHANGED <<bar_vars, signal_vars, timeframe, frames, result, resonance, elsewhere>>

\* get_best_MC_interval.calculate_returns(data, mc_signals)
CalculateReturnsMc ==
    /\ pc = "signals"
    /\ returns_df' = mc_calculate_returns(Df, mc_signals, cd_signals, MAX_SIGNALS_THRESHOLD)
    /\ pc' = "mc_returns"
    /\ UNCHANGED <<bar_vars, signal_vars, timeframe, frames, result, resonance, elsewhere>>

NextRet == CalculateReturnsCd \/ CalculateReturnsMc

SpecRet == InitRet /\ [][NextRet]_vars

----------------------------------------------------------------------------
(* C5: signal cap and end exclusion.  calculate_returns (CD and MC) treats
   undefined signal values as false, keeps only the 7 most recent true
   positions when more than 7 exist, and then drops every kept occurrence at
   index idx with idx + max(periods) >= len(bars): it returns at most 7 rows,
   every row has all forward offsets in range, and an occurrence older than
   the 7 most recent is never evaluated even when kept ones are dropped. *)
TruePositions(sig) == {i \in 1..Len(sig) : sig[i] = "True"}

SevenMostRecent(sig) ==
    {d \in TruePositions(sig) : Cardinality({e \in TruePositions(sig) : e > d}) < 7}

RowDates(rows) == {rows[k].date : k \in 1..Len(rows)}

CapThenDrop(sig, rows) ==
    /\ RowDates(rows) = {d \in SevenMostRecent(sig) : d + MaxPeriod <= Len(close)}
    /\ Len(rows) = Cardinality(RowDates(rows))
    /\ Len(rows) <= 7
    /\ \A k \in 1..Len(rows) : \A p \in periods :
          /\ ~rows[k].returns[p].nan
          /\ ~rows[k].volumes[p].nan
          /\ sig[rows[k].date] = "True"

C5_CapThenDrop ==
    /\ pc = "cd_returns" => CapThenDrop(cd_signals, returns_df)
    /\ pc = "mc_returns" => CapThenDrop(mc_signals, returns_df)

\* more than 7 occurrences, the latest of them too close to the end: 6 rows,
\* and the eighth most recent occurrence is not brought back
C5_Witness ==
    /\ pc = "cd_returns"
    /\ Cardinality(TruePositions(cd_signals)) > 7
    /\ \E d \in SevenMostRecent(cd_signals) : d + MaxPeriod > Len(close)
    /\ Len(returns_df) = 6

----------------------------------------------------------------------------
(* Interval Backtester scenario: evaluate_interval of either backtester is
   applied to data[interval] and the pre-downloaded frames of the other
   timeframes.  The series the indicators return for data[interval] are
   inputs here, as in the return calculation scenario. *)

\* Longest Bar sequence of the scenario
MaxSeries == 5

\* bar-to-bar moves of Close, from an opening Close of 100
Moves == {-10, 0, 10}

RECURSIVE Walk(_, _)
Walk(start, moves) ==
    IF moves = <<>> THEN <<start>>
    ELSE <<start>> \o Walk(start + Head(moves), Tail(moves))

WalkSeries == {<<>>} \cup {Walk(100, m) : m \in SeqsUpTo(Moves, MaxSeries - 1)}

\* a frame of another timeframe: len bars, the k-th at time k + offset on the
\* time axis of data[interval], Close moving by slope per bar
TrendFrame(len, offset, slope) ==
    [index |-> [k \in 1..len |-> k + offset],
     Close |-> [k \in 1..len |-> 500 + slope * k]]

\* the data dictionaries: without other frames, with long frames that end at
\* the current bar, with frames too short for the long EMA, and with long
\* frames that begin after every bar of data[interval]
FrameSets ==
    {<<>>,
     [tf \in {"1d", "30m", "1h", "5m", "4h"} |->
         TrendFrame(89, MaxSeries - 89, IF tf \in {"1d", "5m"} THEN 1 ELSE -1)],
     [tf \in {"1d", "1h"} |-> TrendFrame(IF tf = "1d" THEN 3 ELSE 88, 0, 1)],
     [tf \in {"1d", "30m"} |-> TrendFrame(89, MaxSeries + 1, 1)]}

InitBT ==
    /\ pc = "signals"
    /\ close \in WalkSeries
    /\ high = [i \in 1..Len(close) |-> close[i] + 1]
    /\ low = [i \in 1..Len(close) |-> close[i] - 1]
    /\ volume = [i \in 1..Len(close) |-> 100 + i]
    /\ \E s \in EdgeSeries(Len(close)), under_test \in {"CD", "MC"} :
          /\ cd_signals = IF under_test = "CD" THEN s ELSE Sparse(Len(close))
          /\ mc_signals = IF under_test = "MC" THEN s ELSE Sparse(Len(close))
    /\ timeframe = "2h"
    /\ frames \in FrameSets
    /\ returns_df = <<>>
    /\ result = ReturnsNone
    /\ NoResonance
    /\ NoElsewhere

\* get_best_CD_interval.evaluate_interval(ticker, interval, data)
EvaluateCd ==
    /\ pc = "signals"
    /\ result' = evaluate_interval("T", timeframe, Df, cd_signals, mc_signals, frames)
    /\ pc' = "cd_result"
    /\ UNCHANGED <<bar_vars, signal_vars, timeframe, frames, returns_df, resonance, elsewhere>>

\* get_best_MC_interval.evaluate_interval(ticker, interval, data)
EvaluateMc ==
    /\ pc = "signals"
    /\ result' = mc_evaluate_interval("T", timeframe, Df, mc_signals, cd_signals, frames)
    /\ pc' = "mc_result"
    /\ UNCHANGED <<bar_vars, signal_vars, timeframe, frames, returns_df, resonance, elsewhere>>

NextBT == EvaluateCd \/ EvaluateMc

SpecBT == InitBT /\ [][NextBT]_vars

----------------------------------------------------------------------------
(* Shared vocabulary of the backtester claims *)

\* the series evaluate_interval computed its record from
UnderTest == IF pc = "cd_result" THEN cd_signals ELSE mc_signals

Evaluated == pc \in {"cd_result", "mc_result"} /\ result # ReturnsNone

\* the occurrences retained for the backtest
Retained(sig) == {d \in SevenMostRecent(sig) : d + MaxPeriod <= Len(close)}

LatestOccurrence(sig) == CHOOSE d \in TruePositions(sig) : \A e \in TruePositions(sig) : e <= d

\* (Close[k+p] - Close[k]) / Close[k] * 100 rounded to 2 decimals, in units of 0.01
ReturnAt(k, p) == RoundHalfEven(10000 * (close[k + p] - close[k]), close[k])

RECURSIVE SumReturns(_, _)
SumReturns(S, p) ==
    IF S = {} THEN 0
    ELSE LET d == CHOOSE x \in S : TRUE
         IN  ReturnAt(d, p) + SumReturns(S \ {d}, p)

RisesAfter(d) == \A j \in d..(d + MaxPeriod - 1) : close[j + 1] > close[j]
FallsAfter(d) == \A j \in d..(d + MaxPeriod - 1) : close[j + 1] < close[j]

\* Close moves the favourable way after every retained occurrence
Favourable ==
    /\ Evaluated
    /\ Retained(UnderTest) # {}
    /\ pc = "cd_result" => \A d \in Retained(UnderTest) : RisesAfter(d)
    /\ pc = "mc_result" => \A d \in Retained(UnderTest) : FallsAfter(d)

----------------------------------------------------------------------------
(* C2: success-rate sign convention.  As claimed: when Close strictly falls
   (MC) or strictly rises (CD) over the max(periods) bars after every retained
   occurrence, success_rate_p = 100 for every offset p in 0..max(periods)
   with test_count_p > 0. *)
C2_AllOffsets ==
    Favourable =>
        \A p \in periods :
            result.test_count[p] > 0 => result.success_rate[p] = Num(10000)

(* C2 as the code has it: under the same premise success_rate_p = 100 at
   every offset p >= 1 whose rounded returns are all non-zero, and
   success_rate_0 = 0, return_0 being 0 for every occurrence. *)
C2_PositiveOffsets ==
    Favourable =>
        /\ result.test_count[0] > 0 /\ result.success_rate[0] = Num(0)
        /\ \A p \in periods \ {0} :
              (/\ result.test_count[p] > 0
               /\ \A k \in 1..Len(result.returns[p]) : result.returns[p][k] # 0)
              => result.success_rate[p] = Num(10000)

\* two retained MC occurrences, each followed by falling Close
C2_Witness ==
    /\ Favourable
    /\ pc = "mc_result"
    /\ Cardinality(Retained(mc_signals)) >= 2
    /\ result.success_rate[MaxPeriod] = Num(10000)
    /\ result.success_rate[0] = Num(0)

----------------------------------------------------------------------------
(* C4: forward-return correctness.  As claimed: for a Bar sequence with a
   single occurrence at index k, evaluate_interval reports test_count_p = 1
   and avg_return_p = (Close[k+p] - Close[k]) / Close[k] * 100 rounded to 2
   decimals for every offset p with k + p < length. *)
SingleOccurrence == Evaluated /\ Cardinality(TruePositions(UnderTest)) = 1

C4_SingleOccurrence ==
    SingleOccurrence =>
        \A p \in periods :
            LatestOccurrence(UnderTest) + p <= Len(close) =>
                /\ result.test_count[p] = 1
                /\ result.avg_return[p] = ReturnAt(LatestOccurrence(UnderTest), p)

(* C4 as the code has it: the single occurrence is evaluated only when it is
   retained, k + max(periods) < length, and then at every offset; otherwise
   every test_count_p and avg_return_p is 0.  In general test_count_p is the
   number of retained occurrences and avg_return_p the rounded mean of their
   rounded returns. *)
C4_RetainedOccurrence ==
    Evaluated /\ TruePositions(UnderTest) # {} =>
        \A p \in periods :
            IF Retained(UnderTest) = {}
            THEN result.test_count[p] = 0 /\ result.avg_return[p] = 0
            ELSE /\ result.test_count[p] = Cardinality(Retained(UnderTest))
                 /\ result.avg_return[p] =
                        RoundHalfEven(SumReturns(Retained(UnderTest), p),
                                      Cardinality(Retained(UnderTest)))
                 /\ SingleOccurrence =>
                        result.returns[p] = <<ReturnAt(LatestOccurrence(UnderTest), p)>>

\* a single retained CD occurrence followed by a move of Close
C4_Witness ==
    /\ SingleOccurrence
    /\ pc = "cd_result"
    /\ Retained(cd_signals) # {}
    /\ result.test_count[MaxPeriod] = 1
    /\ result.avg_return[MaxPeriod] < 0

----------------------------------------------------------------------------
(* C6: progress since the latest occurrence.  Whenever the series has at
   least one true position, evaluate_interval reports current_period = (index
   of last bar) - (index of latest occurrence), and price_history /
   volume_history hold an entry for every offset 0..max(periods) relative to
   the latest occurrence (null past the end) plus an entry keyed
   current_period when current_period > max(periods); also when no occurrence
   is retained for the backtest. *)
ExpectedOffsets(elapsed) == periods \cup (IF elapsed > MaxPeriod THEN {elapsed} ELSE {})

ExpectedHistory(series, latest, history) ==
    /\ DOMAIN history = ExpectedOffsets(Len(series) - latest)
    /\ \A p \in DOMAIN history :
          history[p] = IF latest + p <= Len(series) THEN Num(series[latest + p]) ELSE NaNf

C6_Progress ==
    Evaluated /\ TruePositions(UnderTest) # {} =>
        /\ result.current_period = Len(close) - LatestOccurrence(UnderTest)
        /\ ExpectedHistory(close, LatestOccurrence(UnderTest), result.price_history)
        /\ ExpectedHistory(volume, LatestOccurrence(UnderTest), result.volume_history)

(* C6 where an occurrence is retained: the record then reports the progress
   as stated. *)
C6_ProgressWhenRetained ==
    Evaluated /\ Retained(UnderTest) # {} =>
        /\ result.current_period = Len(close) - LatestOccurrence(UnderTest)
        /\ ExpectedHistory(close, LatestOccurrence(UnderTest), result.price_history)
        /\ ExpectedHistory(volume, LatestOccurrence(UnderTest), result.volume_history)

\* the latest occurrence lies more than max(periods) bars back
C6_Witness ==
    /\ Evaluated
    /\ Retained(UnderTest) # {}
    /\ result.current_period > MaxPeriod
    /\ result.current_period \in DOMAIN result.price_history

----------------------------------------------------------------------------
(* C7: record shape.  evaluate_interval (CD and MC) returns a record with the
   same set of field names in every non-failure case: zero signals, signals
   but none retained, and at least one retained occurrence; the per-offset
   families test_count, success_rate, avg_return, avg_volume, returns and
   volumes, the aggregated cross-signal fields and all trend-confirmation
   fields (nx_...) included. *)
CommonFields ==
    {"ticker", "interval", "signal_count", "latest_signal", "latest_signal_price",
     "current_time", "current_price", "current_period", "max_return", "min_return",
     "price_history", "volume_history",
     "test_count", "success_rate", "avg_return", "avg_volume", "returns", "volumes"}

CdShape ==
    CommonFields \cup
    {"mc_signals_before_cd", "mc_at_top_price_count", "mc_at_top_price_rate",
     "avg_mc_price_percentile", "avg_mc_decline_after", "avg_mc_criteria_met",
     "latest_mc_date", "latest_mc_price", "latest_mc_at_top_price",
     "latest_mc_price_percentile", "latest_mc_decline_after", "latest_mc_criteria_met",
     "nx_1d_signal", "nx_30m_signal", "nx_1h_signal", "nx_5m_signal",
     "nx_1d", "nx_30m", "nx_1h", "nx_5m", "nx_4h"}

McShape ==
    CommonFields \cup
    {"cd_signals_before_mc", "cd_at_bottom_price_count", "cd_at_bottom_price_rate",
     "avg_cd_price_percentile", "avg_cd_increase_after", "avg_cd_criteria_met",
     "latest_cd_date", "latest_cd_price", "latest_cd_at_bottom_price",
     "latest_cd_price_percentile", "latest_cd_increase_after", "latest_cd_criteria_met",
     "nx_1d_signal", "nx_1h_signal", "nx_1d", "nx_1h", "nx_4h"}

PerOffset == {"test_count", "success_rate", "avg_return", "avg_volume", "returns", "volumes"}

C7_SameShape ==
    Evaluated =>
        /\ DOMAIN result = IF pc = "cd_result" THEN CdShape ELSE McShape
        /\ \A f \in PerOffset : DOMAIN result[f] = periods

(* C7 where an occurrence is retained: the record has the full shape. *)
C7_ShapeWhenRetained ==
    Evaluated /\ Retained(UnderTest) # {} =>
        /\ DOMAIN result = IF pc = "cd_result" THEN CdShape ELSE McShape
        /\ \A f \in PerOffset : DOMAIN result[f] = periods

C7_Witness ==
    /\ Evaluated
    /\ pc = "cd_result"
    /\ Retained(UnderTest) # {}
    /\ result.nx_1d_signal = "True"
    /\ result.nx_4h = "False"

----------------------------------------------------------------------------
(* Trading-day window scenario: get_trading_day_window_end is asked for the
   window of a start date over the daily data of a ticker *)

\* Last calendar day of the scenario
MaxDay == 16

\* the trading days: every day of 1..n but the sixth and seventh of each week
TradingDays(n) == {d \in 1..n : d % 7 \notin {6, 0}}

\* a frame with a bar at the given slot of every given day
FrameOn(days, slot, comparable) ==
    [index |-> [k \in 1..Cardinality(days) |-> Midnight(Ascending(days)[k]) + slot],
     Close |-> [k \in 1..Cardinality(days) |-> 50 + k],
     comparable |-> comparable]

DailyFrame(days) == FrameOn(days, 0, TRUE)

\* all_ticker_data of ticker A: full daily data, none, an empty daily frame,
\* daily data that stops early, a single bar, and an index that cannot be
\* compared with the start timestamp
WindowData ==
    {[A |-> [d1 |-> DailyFrame(TradingDays(MaxDay - 4))]],
     [A |-> [h1 |-> DailyFrame(TradingDays(MaxDay - 4))]],
     [A |-> [d1 |-> DailyFrame({})]],
     [A |-> [d1 |-> DailyFrame(TradingDays(8))]],
     [A |-> [d1 |-> DailyFrame({9})]],
     [A |-> [d1 |-> FrameOn(TradingDays(MaxDay - 4), 0, FALSE)]]}

\* frames keyed by the timeframe names of the source
Keyed(fs) ==
    LET name == [d1 |-> "1d", h1 |-> "1h", m30 |-> "30m", m5 |-> "5m"]
    IN  [tf \in {name[f] : f \in DOMAIN fs} |-> fs[CHOOSE f \in DOMAIN fs : name[f] = tf]]

AllTickerData(by_ticker) == [t \in DOMAIN by_ticker |-> Keyed(by_ticker[t])]

InitWin ==
    /\ pc = "start"
    /\ close = <<>> /\ high = <<>> /\ low = <<>> /\ volume = <<>>
    /\ cd_signals = <<>> /\ mc_signals = <<>>
    /\ NoBacktest
    /\ NoElsewhere
    /\ signal_records = [ticker |-> "A"] \/ signal_records = [ticker |-> "Z"]
    /\ \E w \in WindowData : all_ticker_data = AllTickerData(w)
    /\ window_start \in 1..MaxDay
    /\ window_end = None
    /\ breakout = Returned(<<>>)

\* get_trading_day_window_end(window_start, ticker, all_ticker_data, days=3)
WindowEnd ==
    /\ pc = "start"
    /\ window_end' = get_trading_day_window_end(window_start, signal_records.ticker,
                                                all_ticker_data, 3)
    /\ pc' = "window"
    /\ UNCHANGED <<bar_vars, signal_vars, backtest, signal_records, all_ticker_data,
                   window_start, breakout, elsewhere>>

NextWin == WindowEnd

SpecWin == InitWin /\ [][NextWin]_vars

----------------------------------------------------------------------------
(* C9: trading-day window end.  As claimed: get_trading_day_window_end(D,
   ticker, all_ticker_data, days=3) returns the date of the daily bar two
   positions after the first daily bar dated on or after D, and returns D + 3
   calendar days whenever the ticker's daily data is missing, empty, or
   insufficient to advance two trading days from D. *)
DailyDates ==
    IF signal_records.ticker \in DOMAIN all_ticker_data
       /\ "1d" \in DOMAIN all_ticker_data[signal_records.ticker]
       /\ all_ticker_data[signal_records.ticker]["1d"].comparable
    THEN {DateOf(all_ticker_data[signal_records.ticker]["1d"].index[k]) :
             k \in 1..Len(all_ticker_data[signal_records.ticker]["1d"].index)}
    ELSE {}

\* the trading days on or after the start date
Ahead == {d \in DailyDates : d >= window_start}

\* the third of them, the first being the earliest
ThirdAhead == CHOOSE d \in Ahead : Cardinality({e \in Ahead : e < d}) = 2

LastDaily == CHOOSE d \in DailyDates : \A e \in DailyDates : e <= d

----------------------------------------------------------------------------
(* Resonance Aggregator scenario: identify_1234 or identify_5230 is applied
   to the signal records of one interval family and the pre-downloaded data
   of the tickers *)

Family(f) == IF f = "1234" THEN <<"1h", "2h", "3h", "4h">> ELSE <<"5m", "10m", "15m", "30m">>

At(day, slot) == day * SlotsPerDay + slot

SignalRecord(ticker, ivl, at, price) ==
    [ticker |-> ticker, interval |-> ivl,
     signal_date |-> [valid |-> TRUE, at |-> at], signal_price |-> price]

\* when an interval of ticker A has its occurrence, if it has one
SignalTimes == {None, At(5, 0), At(8, 0), At(9, 0), At(10, 1)}

OccurrenceOfA(f, j, at) ==
    IF at = None THEN <<>>
    ELSE <<SignalRecord("A", Family(f)[j], at, 10 * j + DateOf(at))>>

\* a second occurrence of the first interval, or an occurrence on the daily
\* interval, outside both families
ExtraOfA(f, extra) ==
    CASE extra = "none" -> <<>>
      [] extra = "again" -> <<SignalRecord("A", Family(f)[1], At(9, 1), 77)>>
      [] extra = "other" -> <<SignalRecord("A", "1d", At(9, 1), 88)>>

RecordsOfB(f, present) ==
    IF present
    THEN <<SignalRecord("B", Family(f)[1], At(8, 0), 21),
           SignalRecord("B", Family(f)[2], At(8, 1), 22),
           SignalRecord("B", Family(f)[3], At(9, 0), 23)>>
    ELSE <<>>

WellFormed(f) ==
    {[kind |-> "list",
      rows |-> OccurrenceOfA(f, 1, w[1]) \o OccurrenceOfA(f, 2, w[2])
               \o OccurrenceOfA(f, 3, w[3]) \o OccurrenceOfA(f, 4, w[4])
               \o ExtraOfA(f, extra) \o RecordsOfB(f, b)] :
        w \in [1..4 -> SignalTimes], extra \in {"none", "again", "other"}, b \in BOOLEAN}

\* the records of a list without one field
Without(rows, field) ==
    [k \in 1..Len(rows) |-> [g \in DOMAIN rows[k] \ {field} |-> rows[k][g]]]

\* the records with the signal dates of the first n made unparseable
Unparseable(rows, n) ==
    [k \in 1..Len(rows) |->
        IF k <= n THEN [rows[k] EXCEPT !.signal_date = [valid |-> FALSE, at |-> 0]]
        ELSE rows[k]]

\* four records of ticker B that resonate, the base of the malformed inputs
FourOfB(f) == <<SignalRecord("B", Family(f)[4], At(8, 0), 24)>> \o RecordsOfB(f, TRUE)

Malformed(f) ==
    {[kind |-> "other", rows |-> <<>>], [kind |-> "list", rows |-> <<>>],
     [kind |-> "DataFrame", rows |-> <<>>],
     [kind |-> "DataFrame", rows |-> FourOfB(f)]}
    \cup {[kind |-> "list", rows |-> Without(FourOfB(f), field)] :
             field \in {"interval", "signal_date", "ticker", "signal_price"}}
    \cup {[kind |-> "list", rows |-> Unparseable(FourOfB(f), n)] : n \in {1, 4}}

\* the pre-downloaded data of A and B: complete, without daily frames, with
\* daily frames only, and with daily frames that stop on day 8
ResonanceData ==
    {[t \in {"A", "B"} |-> [d1 |-> DailyFrame(TradingDays(MaxDay - 4)),
                            m30 |-> FrameOn(TradingDays(MaxDay - 4), 1, TRUE),
                            h1 |-> FrameOn(TradingDays(MaxDay - 4), 1, TRUE)]],
     [t \in {"A", "B"} |-> [m30 |-> FrameOn(TradingDays(MaxDay - 4), 1, TRUE),
                            h1 |-> FrameOn(TradingDays(MaxDay - 4), 1, TRUE)]],
     [t \in {"B"} |-> [d1 |-> DailyFrame(TradingDays(MaxDay - 4))]],
     [t \in {"A", "B"} |-> [d1 |-> DailyFrame(TradingDays(8)),
                            m30 |-> FrameOn(TradingDays(8), 1, TRUE),
                            h1 |-> FrameOn(TradingDays(8), 1, TRUE)]]}

InitRes ==
    /\ close = <<>> /\ high = <<>> /\ low = <<>> /\ volume = <<>>
    /\ cd_signals = <<>> /\ mc_signals = <<>>
    /\ NoBacktest
    /\ NoElsewhere
    /\ \E f \in {"1234", "5230"} :
          /\ pc = IF f = "1234" THEN "records_1234" ELSE "records_5230"
          /\ signal_records \in WellFormed(f) \cup Malformed(f)
    /\ \E d \in ResonanceData : all_ticker_data = AllTickerData(d)
    /\ window_start = None
    /\ window_end = None
    /\ breakout = Returned(<<>>)

\* identify_1234(data, all_ticker_data)
Identify1234 ==
    /\ pc = "records_1234"
    /\ breakout' \in identify_1234(signal_records, all_ticker_data)
    /\ pc' = "identified_1234"
    /\ UNCHANGED <<bar_vars, signal_vars, backtest, signal_records, all_ticker_data,
                   window_start, window_end, elsewhere>>

\* identify_5230(data, all_ticker_data)
Identify5230 ==
    /\ pc = "records_5230"
    /\ breakout' \in identify_5230(signal_records, all_ticker_data)
    /\ pc' = "identified_5230"
    /\ UNCHANGED <<bar_vars, signal_vars, backtest, signal_records, all_ticker_data,
                   window_start, window_end, elsewhere>>

NextRes == Identify1234 \/ Identify5230

SpecRes == InitRes /\ [][NextRes]_vars

----------------------------------------------------------------------------
(* Shared vocabulary of the aggregator claims *)

Identified == pc \in {"identified_1234", "identified_5230"}

RequiredIntervals ==
    IF pc = "identified_1234" THEN {"1h", "2h", "3h", "4h"} ELSE {"5m", "10m", "15m", "30m"}

\* the data a ticker must have to stay in the result
HasTrendData(t) ==
    IF pc = "identified_1234"
    THEN HasFrame(all_ticker_data, t, "1d") /\ HasFrame(all_ticker_data, t, "30m")
    ELSE HasFrame(all_ticker_data, t, "1h")

\* the occurrences of the family with a parsed date
Occurrences ==
    {r \in {ParsedRow(signal_records.rows[k]) : k \in 1..Len(signal_records.rows)} :
        r.interval \in RequiredIntervals /\ r.date # NaT}

\* the occurrences of ticker t inside the window that starts on day d
InWindow(d, t) ==
    {r \in Occurrences :
        /\ r.ticker = t
        /\ d <= r.date /\ r.date < d + 10
        /\ r.date <= get_trading_day_window_end(d, t, all_ticker_data, 3)}

WindowIntervals(d, t) == {r.interval : r \in InWindow(d, t)}

\* the most recent signal date inside the window
KeyDate(d, t) ==
    CHOOSE x \in {r.date : r \in InWindow(d, t)} : \A r \in InWindow(d, t) : r.date <= x

\* the windows of ticker t that resonate and are keyed by the given date
ResonantStarts(t, date) ==
    {d \in {r.date : r \in Occurrences} :
        Cardinality(WindowIntervals(d, t)) >= 3 /\ KeyDate(d, t) = date}

RowsFor(t, date) ==
    {k \in 1..Len(breakout.rows) : breakout.rows[k].ticker = t /\ breakout.rows[k].date = date}

\* every row comes from a window with at least 3 distinct family intervals
OnlyResonant ==
    \A k \in 1..Len(breakout.rows) :
        ResonantStarts(breakout.rows[k].ticker, breakout.rows[k].date) # {}

----------------------------------------------------------------------------
(* C3: resonance threshold.  As claimed: a ticker whose occurrences inside a
   window cover exactly 2 distinct family intervals never produces a row for
   that window; a ticker whose occurrences in the window cover 3 or 4
   distinct family intervals appears in the output exactly once for that
   (ticker, window), however many occurrences each interval contributes. *)
C3_Threshold ==
    Identified /\ ~breakout.raised =>
        /\ OnlyResonant
        /\ \A d \in {r.date : r \in Occurrences}, t \in {r.ticker : r \in Occurrences} :
              Cardinality(WindowIntervals(d, t)) >= 3 =>
                  Cardinality(RowsFor(t, KeyDate(d, t))) = 1

(* C3 as the code has it: the ticker of a window with 3 or 4 distinct family
   intervals appears exactly once under the key (ticker, most recent signal
   date in the window) if it has the trend data of the family, 1d and 30m
   for identify_1234 and 1h for identify_5230, and not at all otherwise. *)
C3_ThresholdWithTrendData ==
    Identified /\ ~breakout.raised =>
        /\ OnlyResonant
        /\ \A d \in {r.date : r \in Occurrences}, t \in {r.ticker : r \in Occurrences} :
              Cardinality(WindowIntervals(d, t)) >= 3 =>
                  Cardinality(RowsFor(t, KeyDate(d, t))) = IF HasTrendData(t) THEN 1 ELSE 0

\* a window with 3 intervals of which one occurs twice gives one row, and a
\* window with exactly 2 intervals gives none
C3_Witness ==
    /\ Identified /\ ~breakout.raised
    /\ \E d \in {r.date : r \in Occurrences} :
          /\ Cardinality(WindowIntervals(d, "A")) = 3
          /\ Cardinality(InWindow(d, "A")) > 3
          /\ Cardinality(RowsFor("A", KeyDate(d, "A"))) = 1
    /\ \E d \in {r.date : r \in Occurrences}, t \in {"A", "B"} :
          /\ Cardinality(WindowIntervals(d, t)) = 2
          /\ RowsFor(t, KeyDate(d, t)) = {}

----------------------------------------------------------------------------
(* C8: failure handling of the aggregator.  identify_1234 and identify_5230
   return an empty result and never raise for any empty or malformed input:
   a value that is neither list nor DataFrame, an empty list, records
   lacking the signal_date, interval or ticker field, unparseable signal
   dates, and non-empty input from which no candidate is formed. *)
NoCandidateInput ==
    \A d \in {r.date : r \in Occurrences}, t \in {r.ticker : r \in Occurrences} :
        Cardinality(WindowIntervals(d, t)) < 3

C8_NeverRaises ==
    Identified =>
        /\ ~breakout.raised
        /\ NoCandidateInput => breakout.rows = <<>>

(* C8 for the inputs the guarded prologue handles: a value that is neither
   list nor DataFrame and an empty list or frame give an empty result. *)
C8_EmptyInput ==
    Identified /\ (signal_records.kind = "other" \/ signal_records.rows = <<>>) =>
        breakout = Returned(<<>>)

C8_Witness ==
    /\ Identified
    /\ signal_records.kind = "other"
    /\ breakout = Returned(<<>>)

----------------------------------------------------------------------------
(* C10: resonance deduplication.  The output of identify_1234 /
   identify_5230 never contains two rows with the same (ticker, date), date
   being the most recent signal date inside the window; a key recorded for an
   earlier window start is skipped when a later window start yields it again,
   and the row kept is the one the earliest window produced. *)
EarliestStart(t, date) ==
    CHOOSE d \in ResonantStarts(t, date) : \A e \in ResonantStarts(t, date) : d <= e

C10_Deduplicated ==
    Identified /\ ~breakout.raised =>
        \A k \in 1..Len(breakout.rows) :
            /\ RowsFor(breakout.rows[k].ticker, breakout.rows[k].date) = {k}
            /\ ResonantStarts(breakout.rows[k].ticker, breakout.rows[k].date) # {}
            /\ breakout.rows[k].intervals =
                   Ascending({Magnitude(s) :
                       s \in WindowIntervals(EarliestStart(breakout.rows[k].ticker,
                                                           breakout.rows[k].date),
                                             breakout.rows[k].ticker)})

\* two windows of a ticker yield the same key with different interval sets
C10_Witness ==
    /\ Identified /\ ~breakout.raised
    /\ \E k \in 1..Len(breakout.rows) :
          \E d, e \in ResonantStarts(breakout.rows[k].ticker, breakout.rows[k].date) :
              /\ d < e
              /\ WindowIntervals(d, breakout.rows[k].ticker)
                     # WindowIntervals(e, breakout.rows[k].ticker)

----------------------------------------------------------------------------
(* C11: trend confirmation needs 89 bars in the interval backtester *)

NxTimeframes == {"1d", "30m", "1h", "5m", "4h"}

\* the fields of a record that carry the trend confirmation of a timeframe
NxFields(tf) == {"nx_" \o tf, "nx_" \o tf \o "_signal"}

\* data[tf] is present and holds the 89 bars of the long EMA
LongEnough(tf) == tf \in DOMAIN frames /\ Len(frames[tf].Close) >= 89

\* C11: in the record evaluate_interval (CD or MC) returns, every
\* trend-confirmation field of a timeframe whose Bar sequence is absent,
\* empty or shorter than 89 bars is None; a value other than None comes
\* only from a sequence of at least 89 bars.
C11_NxNeedsHistory ==
    Evaluated =>
        \A tf \in NxTimeframes : \A f \in NxFields(tf) :
            (f \in DOMAIN result /\ result[f] # "None") => LongEnough(tf)

\* a record whose 1h frame has 88 bars and whose nx_1h is None, next to a
\* record computed from 89 bars
C11_Witness ==
    /\ Evaluated
    /\ "1h" \in DOMAIN frames
    /\ Len(frames["1h"].Close) = 88
    /\ "nx_1h" \in DOMAIN result
    /\ result["nx_1h"] = "None"
    /\ result["nx_1d"] = "None"

----------------------------------------------------------------------------
(* C12: trend confirmation on short history in the resonance aggregator *)

\* the Bar sequence each trend column of a row is derived from
NxSource ==
    [nx_1d_signal |-> "1d", nx_30m_signal |-> "30m", nx_1h_signal |-> "1h",
     nx_5m_signal |-> "5m", nx_1d |-> "1d", nx_1h |-> "1h", nx_30m |-> "30m"]

\* the bars all_ticker_data holds of a ticker on a timeframe
BarsOf(t, tf) ==
    IF HasFrame(all_ticker_data, t, tf) THEN Len(all_ticker_data[t][tf].Close) ELSE 0

ReturnedRows == IF Identified /\ ~breakout.raised THEN breakout.rows ELSE <<>>

\* C12: in every row identify_1234 / identify_5230 returns, each trend
\* column derived from a Bar sequence shorter than 89 bars is undefined.
C12_ShortHistoryUndefined ==
    \A k \in 1..Len(ReturnedRows) :
        \A f \in DOMAIN NxSource \cap DOMAIN ReturnedRows[k] :
            BarsOf(ReturnedRows[k].ticker, NxSource[f]) < 89 => ReturnedRows[k][f] = "None"

\* C12, as the code behaves: the current trend columns of a returned row are
\* undefined exactly when the ticker has no bar on the timeframe, whatever
\* the number of bars.
C12_UndefinedOnlyWithoutBars ==
    \A k \in 1..Len(ReturnedRows) :
        \A f \in {"nx_1d", "nx_1h", "nx_30m"} :
            ReturnedRows[k][f] = "None" <=> BarsOf(ReturnedRows[k].ticker, NxSource[f]) = 0

\* a returned row whose daily trend columns are computed from fewer than 89 bars
C12_Witness ==
    \E k \in 1..Len(ReturnedRows) :
        /\ BarsOf(ReturnedRows[k].ticker, "1d") \in 1..88
        /\ ReturnedRows[k].nx_1d # "None"
        /\ "nx_1d_signal" \in DOMAIN ReturnedRows[k]
        /\ ReturnedRows[k].nx_1d_signal # "None"

----------------------------------------------------------------------------
(* C14: the MC indicator against the CD indicator of the negated series *)

\* the same Bar sequence with Close negated
Negated(cl) == [i \in 1..Len(cl) |-> -cl[i]]

\* C14: compute_mc_indicator fires at bar i if and only if
\* compute_cd_indicator fires at bar i on the same sequence with Close
\* negated, the magnitude-decay confirmation included.
C14_ExactMirror ==
    pc = "done" => mc_signals = compute_cd_indicator(Negated(close))

\* C14, as the code behaves: the raw MC trigger is the raw CD trigger of the
\* negated series, and the MC confirmation holds wherever the CD
\* confirmation of the negated series holds; it compares the signed diff
\* values, so it may hold in more bars.
C14_MirrorUpToConfirmation ==
    pc = "done" =>
        /\ mc_dbbl(close) = cd_ccc(Negated(close))
        /\ \A i \in 1..Len(close) : cd_jjj(Negated(close))[i] => mc_dbjg(close)[i]

\* a bar where MC is confirmed although the CD confirmation of the negated
\* series fails
C14_Witness ==
    /\ pc = "done"
    /\ \E i \in 1..Len(close) :
          /\ mc_signals[i] = "True"
          /\ mc_dbjg(close)[i]
          /\ ~cd_jjj(Negated(close))[i]

----------------------------------------------------------------------------
(* Resampler scenario: transform_1h_data or transform_5m_data is applied to
   a frame of one or two days, then to its own output *)

\* Bars that may come after the first day
MaxLater == 3

\* the times of the day a base bar may have: before the session, at its
\* opening, inside, at its end and after it
Times1h == <<510, 570, 630, 690, 750, 810, 870, 930, 990>>
Times5m == <<565, 570, 575, 580, 585, 595, 955, 960, 965>>

\* the times of the bars that may come on a later day
LaterTimes(times) == <<times[2], times[3], times[8]>>

\* the bar at a time: prices that neither rise nor fall with the time, and
\* a Volume that tells the bars apart in a sum
BarAt(t, n) ==
    LET open == 100 + ((7 * n) % 11)
        last == 100 + ((5 * n) % 13)
    IN  [t |-> t, nan |-> FALSE, Open |-> open, High |-> Max(open, last) + (n % 3),
         Low |-> Min(open, last) - (n % 2), Close |-> last, Volume |-> 2 ^ n]

\* every bar the input may hold, in the order of time
CandidateBars(times) ==
    [n \in 1..(Len(times) + MaxLater) |->
        IF n <= Len(times) THEN BarAt(MinutesPerDay + times[n], n)
        ELSE BarAt((2 + (n - Len(times) - 1) \div 3) * MinutesPerDay
                       + LaterTimes(times)[((n - Len(times) - 1) % 3) + 1], n)]

\* the frames made of some of the candidate bars
FramesOf(times) ==
    {LET Chosen(b) == b.Volume \in {2 ^ n : n \in S}
     IN  SelectSeq(CandidateBars(times), Chosen) :
        S \in SUBSET (1..(Len(times) + MaxLater))}

InitRs ==
    /\ close = <<>> /\ high = <<>> /\ low = <<>> /\ volume = <<>>
    /\ cd_signals = <<>> /\ mc_signals = <<>>
    /\ NoBacktest
    /\ NoResonance
    /\ NoMarket
    /\ NoRunStore
    /\ NoLater
    /\ \/ /\ pc = "bars_1h"
          /\ bars_in \in FramesOf(Times1h)
          /\ target \in {"1h", "2h", "3h", "4h"}
       \/ /\ pc = "bars_5m"
          /\ bars_in \in FramesOf(Times5m)
          /\ target \in {"5m", "10m", "15m", "30m"}
    /\ bars_out = <<>>
    /\ bars_again = <<>>

\* transform_1h_data(df_1h, new_interval)
Transform1h ==
    /\ pc = "bars_1h"
    /\ bars_out' = transform_1h_data(bars_in, target)
    /\ pc' = "resampled_1h"
    /\ UNCHANGED <<bar_vars, signal_vars, backtest, resonance, market, bars_in, target,
                   bars_again, run_store, later>>

\* transform_5m_data(df_5m, new_interval)
Transform5m ==
    /\ pc = "bars_5m"
    /\ bars_out' = transform_5m_data(bars_in, target)
    /\ pc' = "resampled_5m"
    /\ UNCHANGED <<bar_vars, signal_vars, backtest, resonance, market, bars_in, target,
                   bars_again, run_store, later>>

\* transform_1h_data applied to what it returned, with the same new_interval
Transform1hAgain ==
    /\ pc = "resampled_1h"
    /\ bars_again' = transform_1h_data(bars_out, target)
    /\ pc' = "again_1h"
    /\ UNCHANGED <<bar_vars, signal_vars, backtest, resonance, market, bars_in, target,
                   bars_out, run_store, later>>

\* transform_5m_data applied to what it returned, with the same new_interval
Transform5mAgain ==
    /\ pc = "resampled_5m"
    /\ bars_again' = transform_5m_data(bars_out, target)
    /\ pc' = "again_5m"
    /\ UNCHANGED <<bar_vars, signal_vars, backtest, resonance, market, bars_in, target,
                   bars_out, run_store, later>>

NextRs == Transform1h \/ Transform5m \/ Transform1hAgain \/ Transform5mAgain

SpecRs == InitRs /\ [][NextRs]_vars

----------------------------------------------------------------------------
(* Shared vocabulary of the resampler claims *)

Resampled == pc \in {"resampled_1h", "resampled_5m", "again_1h", "again_5m"}

\* the target span in minutes
Span ==
    CASE target \in {"5m", "10m", "15m", "30m"} ->
             (CASE target = "5m" -> 5 [] target = "10m" -> 10 [] target = "15m" -> 15
                [] target = "30m" -> 30)
      [] target \in {"1h", "2h", "3h", "4h"} ->
             60 * (CASE target = "1h" -> 1 [] target = "2h" -> 2 [] target = "3h" -> 3
                     [] target = "4h" -> 4)

\* the input bars between 09:30 and 16:00, as positions of the input
InSessionBars ==
    {k \in 1..Len(bars_in) :
        TimeOfDay(bars_in[k].t) >= SessionOpen /\ TimeOfDay(bars_in[k].t) <= SessionClose}

\* the calendar day of a timestamp and the number k of its window
\* [09:30 + k*span, 09:30 + (k+1)*span)
WindowOf(t) == <<DayOfMinute(t), (TimeOfDay(t) - SessionOpen) \div Span>>

\* the in-session input bars of the day and window of an output bar
MembersOf(o) == {k \in InSessionBars : WindowOf(bars_in[k].t) = WindowOf(o.t)}

RECURSIVE VolumeOf(_)
VolumeOf(S) ==
    IF S = {} THEN 0
    ELSE LET k == CHOOSE x \in S : TRUE IN bars_in[k].Volume + VolumeOf(S \ {k})

\* C15: every output bar of transform_5m_data / transform_1h_data aggregates
\* the in-session input bars of one calendar day in one window
\* [09:30 + k*span, 09:30 + (k+1)*span) with Open first, High max, Low min,
\* Close last and Volume the sum; every in-session input bar is in exactly
\* one output bar, and a window without input bars yields no output bar.
C15_Aggregation ==
    Resampled =>
        /\ \A j \in 1..Len(bars_out) :
              LET o == bars_out[j]
                  M == MembersOf(o)
              IN  /\ M # {}
                  /\ ~o.nan
                  /\ TimeOfDay(o.t) = SessionOpen + WindowOf(o.t)[2] * Span
                  /\ o.Open = bars_in[CHOOSE k \in M : \A l \in M : k <= l].Open
                  /\ o.Close = bars_in[CHOOSE k \in M : \A l \in M : l <= k].Close
                  /\ \E k \in M : o.High = bars_in[k].High
                  /\ \A k \in M : bars_in[k].High <= o.High
                  /\ \E k \in M : o.Low = bars_in[k].Low
                  /\ \A k \in M : o.Low <= bars_in[k].Low
                  /\ o.Volume = VolumeOf(M)
        /\ \A k \in InSessionBars :
              Cardinality({j \in 1..Len(bars_out) :
                              WindowOf(bars_out[j].t) = WindowOf(bars_in[k].t)}) = 1

\* an output bar made of several input bars, followed on its day by a window
\* without bars and then by another output bar, and a bar of another day
C15_Witness ==
    /\ Resampled
    /\ \E i, j, l \in 1..Len(bars_out) :
          /\ Cardinality(MembersOf(bars_out[i])) >= 2
          /\ WindowOf(bars_out[j].t)[1] = WindowOf(bars_out[i].t)[1]
          /\ WindowOf(bars_out[j].t)[2] > WindowOf(bars_out[i].t)[2] + 1
          /\ \A m \in 1..Len(bars_out) :
                 WindowOf(bars_out[m].t) # <<WindowOf(bars_out[i].t)[1],
                                            WindowOf(bars_out[i].t)[2] + 1>>
          /\ WindowOf(bars_out[l].t)[1] # WindowOf(bars_out[i].t)[1]

----------------------------------------------------------------------------
(* C16: session containment *)

\* the input bars whose Volume is part of the Volume of an output bar: the
\* Volumes of the input bars are distinct powers of two
Contributors(o) ==
    {k \in 1..Len(bars_in) : (o.Volume \div bars_in[k].Volume) % 2 = 1}

\* the last window of a day that holds an in-session input bar
LastWindows ==
    {WindowOf(bars_in[k].t) : k \in {l \in InSessionBars :
        \A m \in InSessionBars :
            DayOfMinute(bars_in[m].t) = DayOfMinute(bars_in[l].t)
                => bars_in[m].t <= bars_in[l].t}}

\* C16: every output bar's timestamp lies between 09:30 and 16:00 of the
\* calendar day of the bars it aggregates, input bars outside 09:30-16:00
\* contribute to no output bar, and the last window of a day is emitted as
\* its own bar even when it is shorter than the target span.
C16_SessionContainment ==
    Resampled =>
        /\ \A j \in 1..Len(bars_out) :
              LET o == bars_out[j]
              IN  /\ TimeOfDay(o.t) >= SessionOpen
                  /\ TimeOfDay(o.t) <= SessionClose
                  /\ Contributors(o) # {}
                  /\ Contributors(o) \subseteq InSessionBars
                  /\ \A k \in Contributors(o) :
                        DayOfMinute(bars_in[k].t) = DayOfMinute(o.t)
                  /\ \E k \in Contributors(o) : o.Open = bars_in[k].Open
                  /\ \E k \in Contributors(o) : o.High = bars_in[k].High
                  /\ \E k \in Contributors(o) : o.Low = bars_in[k].Low
                  /\ \E k \in Contributors(o) : o.Close = bars_in[k].Close
        /\ \A w \in LastWindows :
              \E j \in 1..Len(bars_out) :
                  /\ WindowOf(bars_out[j].t) = w
                  /\ TimeOfDay(bars_out[j].t) = SessionOpen + w[2] * Span

\* an input with bars before and after the session of a day, whose last
\* window is cut short by the end of the session and is emitted
C16_Witness ==
    /\ Resampled
    /\ \E j \in 1..Len(bars_out), a, b \in 1..Len(bars_in) :
          /\ TimeOfDay(bars_out[j].t) + Span > SessionClose
          /\ TimeOfDay(bars_out[j].t) < SessionClose
          /\ DayOfMinute(bars_in[a].t) = DayOfMinute(bars_out[j].t)
          /\ DayOfMinute(bars_in[b].t) = DayOfMinute(bars_out[j].t)
          /\ TimeOfDay(bars_in[a].t) < SessionOpen
          /\ TimeOfDay(bars_in[b].t) > SessionClose

----------------------------------------------------------------------------
(* C17: resampling with the interval the sequence already has *)

\* the target is the interval of the input sequence
SameInterval ==
    \/ pc \in {"resampled_1h", "again_1h"} /\ target = "1h"
    \/ pc \in {"resampled_5m", "again_5m"} /\ target = "5m"

\* C17 as stated: resampling a sequence whose interval is X with target X
\* returns it unchanged, and so does resampling an output with its target.
C17_Idempotent ==
    /\ SameInterval => bars_out = bars_in
    /\ pc \in {"again_1h", "again_5m"} => bars_again = bars_out

\* every bar of the input lies between 09:30 and 16:00 on the grid
\* 09:30 + k*span of its day
SessionAligned ==
    \A k \in 1..Len(bars_in) :
        /\ k \in InSessionBars
        /\ (TimeOfDay(bars_in[k].t) - SessionOpen) % Span = 0

\* C17, amended: resampling a sequence whose interval is X and whose bars
\* all lie in the session on the grid 09:30 + k*X with target X returns it
\* unchanged; resampling an output of a transform with its own target
\* returns that output unchanged.
C17_IdempotentInSession ==
    /\ (SameInterval /\ SessionAligned) => bars_out = bars_in
    /\ pc \in {"again_1h", "again_5m"} => bars_again = bars_out

\* an output of several bars, one of them made of several input bars, that
\* the second application returns unchanged
C17_Witness ==
    /\ pc \in {"again_1h", "again_5m"}
    /\ ~SameInterval
    /\ Len(bars_out) >= 3
    /\ \E j \in 1..Len(bars_out) : Cardinality(MembersOf(bars_out[j])) >= 2
    /\ bars_again = bars_out

----------------------------------------------------------------------------
(* Data source scenario: evaluate_interval is called from its first line
   with a data dictionary, for every interval name, while the provider has
   bars, has none, or fails *)

\* the interval names of the core, and one that is none of them
IntervalNames == {"5m", "10m", "15m", "30m", "1h", "2h", "3h", "4h", "1d", "1w", "1mo"}

\* the bars with every price raised, to tell injected bars from fetched ones
Raise(rows, by) ==
    [k \in 1..Len(rows) |->
        [rows[k] EXCEPT !.Open = @ + by, !.High = @ + by, !.Low = @ + by, !.Close = @ + by]]

\* daily bars at midnight of the trading days up to a day
DailyBars(n) ==
    LET days == Ascending(TradingDays(n))
    IN  [k \in 1..Len(days) |-> BarAt(days[k] * MinutesPerDay, k)]

\* the session bars of the first day among the candidate bars
SessionBars(times) ==
    LET InFirstSession(b) ==
            /\ DayOfMinute(b.t) = 1
            /\ TimeOfDay(b.t) >= SessionOpen /\ TimeOfDay(b.t) <= SessionClose
    IN  SelectSeq(CandidateBars(times), InFirstSession)

\* what the provider answers for its three base intervals
Providers ==
    {[iv \in {"5m", "1h", "1d"} |->
         [raised |-> FALSE,
          rows |-> CASE iv = "5m" -> SessionBars(Times5m)
                     [] iv = "1h" -> SessionBars(Times1h)
                     [] iv = "1d" -> DailyBars(10)]],
     [iv \in {"5m", "1h", "1d"} |-> [raised |-> FALSE, rows |-> <<>>]],
     [iv \in {"5m", "1h", "1d"} |-> [raised |-> TRUE, rows |-> <<>>]]}

\* an injected frame of an interval
InjectedFrame(iv) ==
    Raise(IF iv \in {"1d", "1w", "1mo"} THEN DailyBars(12) ELSE SessionBars(Times1h), 1000)

\* the data dictionaries: empty, with the interval, with an empty frame for
\* it, without it, with an empty daily frame only, with more than it
DataFor(iv) ==
    {<<>>,
     iv :> InjectedFrame(iv),
     (iv :> <<>>) @@ ("1d" :> InjectedFrame("1d")),
     "1d" :> InjectedFrame("1d"),
     "1d" :> <<>>,
     (iv :> InjectedFrame(iv)) @@ ("1d" :> InjectedFrame("1d")) @@ ("1h" :> InjectedFrame("1h"))}

InitSrc ==
    /\ pc = "call"
    /\ close = <<>> /\ high = <<>> /\ low = <<>> /\ volume = <<>>
    /\ cd_signals = <<>> /\ mc_signals = <<>>
    /\ timeframe \in IntervalNames
    /\ frames \in DataFor(timeframe)
    /\ returns_df = <<>>
    /\ result = ReturnsNone
    /\ NoResonance
    /\ provider \in Providers
    /\ fetched = {}
    /\ NoResampling
    /\ NoRunStore
    /\ NoLater

\* get_best_CD_interval.evaluate_interval(ticker, interval, data)
EvaluateCdFromSource ==
    /\ pc = "call"
    /\ result' = cd_evaluate_from_source("T", timeframe, frames, provider).result
    /\ fetched' = fetched \cup cd_evaluate_from_source("T", timeframe, frames, provider).calls
    /\ pc' = "cd_returned"
    /\ UNCHANGED <<bar_vars, signal_vars, timeframe, frames, returns_df, resonance,
                   provider, resampling, run_store, later>>

\* get_best_MC_interval.evaluate_interval(ticker, interval, data)
EvaluateMcFromSource ==
    /\ pc = "call"
    /\ result' = mc_evaluate_from_source("T", timeframe, frames, provider).result
    /\ fetched' = fetched \cup mc_evaluate_from_source("T", timeframe, frames, provider).calls
    /\ pc' = "mc_returned"
    /\ UNCHANGED <<bar_vars, signal_vars, timeframe, frames, returns_df, resonance,
                   provider, resampling, run_store, later>>

NextSrc == EvaluateCdFromSource \/ EvaluateMcFromSource

SpecSrc == InitSrc /\ [][NextSrc]_vars

\* C13: called with a data dictionary, evaluate_interval (CD or MC) never
\* calls the market-data provider, for every interval name, also when the
\* dictionary has no entry or an empty entry for the interval.
C13_NoFetch == pc \in {"cd_returned", "mc_returned"} => fetched = {}

\* the bars evaluate_interval takes from the dictionary, if it holds them
FromDictionary ==
    IF Injected(frames, timeframe) THEN frames[timeframe]
    ELSE IF timeframe = "1w" /\ Injected(frames, "1d") THEN resample_weekly(frames["1d"])
    ELSE <<>>

\* C13, as the code behaves: the provider is left alone exactly when the
\* dictionary holds bars for the interval (or daily bars for 1w) or the
\* interval is not one of the core's; a record made without a call is made
\* of the injected bars.
C13_NoFetchWhenInjected ==
    pc \in {"cd_returned", "mc_returned"} =>
        /\ fetched = {} <=> (FromDictionary # <<>> \/ timeframe = "1mo")
        /\ (fetched = {} /\ result # ReturnsNone) =>
              /\ result.current_price = FromDictionary[Len(FromDictionary)].Close
              /\ result.current_time = Len(FromDictionary)

\* a call with bars for the interval in the dictionary while the provider
\* has other bars: no call is made and the record is made of the injected bars
C13_Witness ==
    /\ pc \in {"cd_returned", "mc_returned"}
    /\ Injected(frames, timeframe)
    /\ ~provider["1d"].raised /\ provider["1d"].rows # <<>>
    /\ fetched = {}
    /\ result # ReturnsNone
    /\ result.current_price > 1000

----------------------------------------------------------------------------
(* db_utils.py: the store of analysis runs and their results              *)
(*                                                                         *)
(* A row of analysis_runs is [id, stock_list_name, status]; a row of       *)
(* analysis_results is [id, run_id, ticker, interval, result_type, data].  *)
(* A value handed over as data is a list of dicts (to_dict(orient=         *)
(* 'records')): a sequence of functions from column names to scalars, and  *)
(* a scalar is a string that names its Python type and value.              *)

\* the largest primary key of a table, 0 for an empty table
MaxId(rows) ==
    IF rows = {} THEN 0
    ELSE CHOOSE m \in {r.id : r \in rows} : \A r \in rows : r.id <= m

RunsOfList(table, stock_list_name) ==
    {r \in table : r.stock_list_name = stock_list_name}

\* db.query(AnalysisRun).filter(...).delete(): one DELETE statement on
\* analysis_runs; the rows of analysis_results are not visited
bulk_delete_runs(table, stock_list_name) ==
    table \ RunsOfList(table, stock_list_name)

\* the rows of analysis_results whose run_id is the id of one of of_runs
ResultsOf(table, of_runs) == {x \in table : \E r \in of_runs : x.run_id = r.id}

\* what the DELETE of line 85 may do: it commits, or, when rows of
\* analysis_results refer to the runs and the database enforces the foreign
\* key of run_id (which has no ON DELETE rule), it raises and is rolled back
CleanupOutcomes(run_table, result_table, stock_list_name) ==
    IF ResultsOf(result_table, RunsOfList(run_table, stock_list_name)) # {}
    THEN {TRUE, FALSE} ELSE {TRUE}

\* the runs table after the cleanup of create_analysis_run; cleaned is FALSE
\* when the DELETE raised and was rolled back
AfterCleanup(table, stock_list_name, cleaned) ==
    IF cleaned THEN bulk_delete_runs(table, stock_list_name) ELSE table

\* the primary keys the database may give a new AnalysisRun: the successor of
\* the largest stored key (a rowid) or of the number of rows ever inserted
\* (a sequence)
NewRunIds(table, inserted) == {MaxId(table) + 1, inserted + 1}

\* create_analysis_run(stock_list_name): the runs table it leaves when it
\* returns id
create_analysis_run(table, stock_list_name, cleaned, id) ==
    AfterCleanup(table, stock_list_name, cleaned)
        \cup {[id |-> id, stock_list_name |-> stock_list_name, status |-> "running"]}

\* update_analysis_run_status(run_id, status)
update_analysis_run_status(table, run_id, status) ==
    {IF r.id = run_id THEN [r EXCEPT !.status = status] ELSE r : r \in table}

\* clean_nans on a scalar: NaN and the infinities become None, timestamps
\* and dates their isoformat() string, everything else is returned as it is
clean_scalar(d) ==
    CASE d \in {"float nan", "float inf", "float -inf"} -> "None"
      [] d = "Timestamp 2024-01-02 09:30" -> "str 2024-01-02T09:30:00"
      [] d = "date 2024-01-02" -> "str 2024-01-02"
      [] OTHER -> d

\* clean_nans(data) on a list of dicts
clean_nans(data) ==
    [i \in 1..Len(data) |-> [k \in DOMAIN data[i] |-> clean_scalar(data[i][k])]]

\* whether the JSON column can encode the value: json.dumps raises TypeError
\* on a numpy integer
Serializable(data) ==
    \A i \in 1..Len(data) : \A k \in DOMAIN data[i] : data[i][k] # "int64 7"

SameKey(r, run_id, ticker, interval, result_type) ==
    /\ r.run_id = run_id
    /\ r.ticker = ticker
    /\ r.interval = interval
    /\ r.result_type = result_type

\* save_analysis_result without the DELETE of lines 133-138
save_analysis_result_append(table, run_id, ticker, interval, result_type, data, db_ok) ==
    LET clean_data == clean_nans(data)
        added == table \cup
            {[id |-> MaxId(table) + 1, run_id |-> run_id, ticker |-> ticker,
              interval |-> interval, result_type |-> result_type, data |-> clean_data]}
    IN  IF db_ok /\ Serializable(clean_data) THEN added ELSE table

\* save_analysis_result(run_id, ticker, interval, result_type, data): the
\* results table it leaves; db_ok is FALSE when the database raised, and an
\* exception of the DELETE, the INSERT or the commit rolls the session back
save_analysis_result(table, run_id, ticker, interval, result_type, data, db_ok) ==
    LET clean_data == clean_nans(data)
        deleted == {r \in table : ~SameKey(r, run_id, ticker, interval, result_type)}
        added == deleted \cup
            {[id |-> MaxId(deleted) + 1, run_id |-> run_id, ticker |-> ticker,
              interval |-> interval, result_type |-> result_type, data |-> clean_data]}
    IN  IF db_ok /\ Serializable(clean_data) THEN added ELSE table

----------------------------------------------------------------------------
(* stock_analyzer.py: analyze_stocks *)

\* os.path.basename(file_path); a path is <<directory, file name>>
basename(file_path) == file_path[2]

\* line.strip() on the lines a ticker file is made of
strip(line) ==
    CASE line = "\n" -> ""
      [] line = "AAPL\n" -> "AAPL"
      [] line = " AAPL \n" -> "AAPL"
      [] line = "QQQ\n" -> "QQQ"
      [] OTHER -> line

\* [line.strip() for line in f if line.strip()]
RECURSIVE raw_tickers(_)
raw_tickers(lines) ==
    IF lines = <<>> THEN <<>>
    ELSE (IF strip(Head(lines)) # "" THEN <<strip(Head(lines))>> ELSE <<>>)
            \o raw_tickers(Tail(lines))

\* list(dict.fromkeys(raw_tickers)): the first occurrence of each, in order
RECURSIVE fromkeys(_)
fromkeys(s) ==
    IF s = <<>> THEN <<>>
    ELSE LET front == fromkeys(SubSeq(s, 1, Len(s) - 1))
             last == s[Len(s)]
         IN  IF \E i \in 1..Len(front) : front[i] = last THEN front
             ELSE Append(front, last)

index_tickers == <<"^SPX", "^DJI", "QQQ", "IWM">>

NotIndexTicker(t) == \A i \in 1..Len(index_tickers) : index_tickers[i] # t

\* the tickers of lines 230-238
load_tickers(lines) ==
    index_tickers \o SelectSeq(fromkeys(raw_tickers(lines)), NotIndexTicker)

\* one row of the signal rows a ticker with signals contributes
SignalRow(ticker) ==
    [ticker |-> ticker, signal_date |-> "Timestamp 2024-01-02 09:30",
     signal_price |-> "float nan"]

\* lines 300-316: the rows of the tickers process_ticker_all returned rows
\* for, in the order of the tickers; outcome[i] is "failed" (the tuple of
\* line 201 or 163), "empty" (no rows) or "signals"
RECURSIVE AggregatedRows(_, _)
AggregatedRows(tickers, outcome) ==
    IF tickers = <<>> THEN <<>>
    ELSE LET n == Len(tickers)
         IN  AggregatedRows(SubSeq(tickers, 1, n - 1), outcome)
                \o (IF outcome[n] = "signals" THEN <<SignalRow(tickers[n])>> ELSE <<>>)

\* failed_tickers of lines 306-308
RECURSIVE FailedTickers(_, _)
FailedTickers(tickers, outcome) ==
    IF tickers = <<>> THEN <<>>
    ELSE LET n == Len(tickers)
         IN  FailedTickers(SubSeq(tickers, 1, n - 1), outcome)
                \o (IF outcome[n] = "failed" THEN <<tickers[n]>> ELSE <<>>)

\* the save_analysis_result calls of lines 350-358 and 398-406 in order: the
\* details always, the summary and the breadth when identify_1234 returned
\* rows, the evaluation when there are evaluation rows; the other result
\* types of the body are saved by the same calls under other names
PendingSaves(rows, breakout_rows) ==
    <<[result_type |-> "cd_breakout_candidates_details_1234", data |-> rows]>>
    \o (IF breakout_rows
        THEN <<[result_type |-> "cd_breakout_candidates_summary_1234", data |-> rows],
               [result_type |-> "cd_market_breadth_1234",
                data |-> <<[date |-> "str 2024-01-02", count |-> "int 1"]>>]>>
        ELSE <<>>)
    \o (IF rows # <<>>
        THEN <<[result_type |-> "cd_eval_custom_detailed", data |-> rows]>>
        ELSE <<>>)

\* the results table after the first n calls of calls, the call numbered bad
\* meeting a database error
RECURSIVE SaveAll(_, _, _, _, _)
SaveAll(table, run_id, calls, n, bad) ==
    IF n = 0 THEN table
    ELSE save_analysis_result(SaveAll(table, run_id, calls, n - 1, bad), run_id, "ALL",
                              "ALL", calls[n].result_type, calls[n].data, n # bad)

----------------------------------------------------------------------------
(* Scenario: analyses of ticker lists, one after the other *)

MaxRuns == 2

FilePaths == {<<"lists", "sp500.tab">>, <<"old", "sp500.tab">>, <<"lists", "nasdaq.tab">>}

\* what open(file_path) finds: it raises, or yields these lines
FileContents ==
    {[readable |-> FALSE, lines |-> <<>>],
     [readable |-> TRUE, lines |-> <<>>],
     [readable |-> TRUE, lines |-> <<"\n">>],
     [readable |-> TRUE, lines |-> <<" AAPL \n", "\n", "QQQ\n", "AAPL\n">>]}

\* what process_ticker_all returned for each ticker: every ticker failed,
\* no ticker has rows, or the first failed, the second has rows and the
\* others have none
Outcomes(n) ==
    {[i \in 1..n |-> "failed"], [i \in 1..n |-> "empty"],
     [i \in 1..n |-> IF i = 1 THEN "failed" ELSE IF i = 2 THEN "signals" ELSE "empty"]}

IdleJob ==
    [file_path |-> <<"", "">>, run_id |-> None, tickers |-> <<>>, rows |-> <<>>,
     failed_tickers |-> <<>>, unreadable |-> FALSE, no_tickers |-> FALSE, raised |-> FALSE]

InitRun ==
    /\ pc = "idle"
    /\ close = <<>> /\ high = <<>> /\ low = <<>> /\ volume = <<>>
    /\ cd_signals = <<>> /\ mc_signals = <<>>
    /\ NoBacktest
    /\ NoResonance
    /\ NoMarket
    /\ NoResampling
    /\ NoLater
    /\ runs = {}
    /\ results = {}
    /\ run_seq = 0
    /\ job = IdleJob
    /\ last_call = [op |-> "none"]

\* analyze_stocks, lines 218-226: create_analysis_run(stock_list_name), which
\* returns the id of the new run or raises at its own commit
CreateRun ==
    /\ pc = "idle"
    /\ run_seq < MaxRuns
    /\ \E file_path \in FilePaths, created \in BOOLEAN :
       \E cleaned \in CleanupOutcomes(runs, results, basename(file_path)) :
         LET stock_list_name == basename(file_path)
             kept == AfterCleanup(runs, stock_list_name, cleaned)
         IN  \E id \in NewRunIds(kept, run_seq) :
               /\ runs' = IF created
                          THEN create_analysis_run(runs, stock_list_name, cleaned, id)
                          ELSE kept
               /\ run_seq' = IF created THEN run_seq + 1 ELSE run_seq
               /\ job' = [IdleJob EXCEPT !.file_path = file_path,
                                         !.run_id = IF created THEN id ELSE None]
               /\ last_call' = [op |-> "create_analysis_run",
                                stock_list_name |-> stock_list_name,
                                cleaned |-> cleaned, returned |-> created,
                                run_id |-> IF created THEN id ELSE None,
                                runs_before |-> runs, results_before |-> results]
               /\ pc' = IF created THEN "created" ELSE "done"
    /\ UNCHANGED <<bar_vars, signal_vars, backtest, resonance, market, resampling, later, results>>

\* analyze_stocks, lines 228-249: the ticker list is read
LoadStockList ==
    /\ pc = "created"
    /\ \E content \in FileContents :
         LET tickers == load_tickers(content.lines)
         IN  IF ~content.readable \/ tickers = <<>>
             THEN /\ runs' = update_analysis_run_status(runs, job.run_id, "failed")
                  /\ job' = [job EXCEPT !.unreadable = ~content.readable,
                                        !.no_tickers = content.readable]
                  /\ pc' = "done"
             ELSE /\ runs' = runs
                  /\ job' = [job EXCEPT !.tickers = tickers,
                                        !.no_tickers = (raw_tickers(content.lines) = <<>>)]
                  /\ pc' = "loaded"
    /\ UNCHANGED <<bar_vars, signal_vars, backtest, resonance, market, resampling, later, results,
                   run_seq, last_call>>

\* analyze_stocks, lines 258-316: the pool maps process_ticker_all over the
\* tickers, or raises, which lines 633-636 answer
ProcessTickers ==
    /\ pc = "loaded"
    /\ \E outcome \in Outcomes(Len(job.tickers)), pool_raised \in BOOLEAN :
         IF pool_raised
         THEN /\ runs' = update_analysis_run_status(runs, job.run_id, "failed")
              /\ job' = [job EXCEPT !.raised = TRUE]
              /\ pc' = "done"
         ELSE /\ runs' = runs
              /\ job' = [job EXCEPT !.rows = AggregatedRows(job.tickers, outcome),
                                    !.failed_tickers = FailedTickers(job.tickers, outcome)]
              /\ pc' = "processed"
    /\ UNCHANGED <<bar_vars, signal_vars, backtest, resonance, market, resampling, later, results,
                   run_seq, last_call>>

\* analyze_stocks, lines 348-636: the results are saved and the run is
\* completed, or a statement after the first save or the last one raises and
\* the run is failed; the first save may meet a database error
AggregateAndSave ==
    /\ pc = "processed"
    /\ \E breakout_rows \in {b \in BOOLEAN : b => job.rows # <<>>}, raised \in BOOLEAN :
         LET calls == PendingSaves(job.rows, breakout_rows)
         IN  \E bad \in 0..1, stop \in {1, Len(calls)} :
               /\ results' = SaveAll(results, job.run_id, calls,
                                     IF raised THEN stop ELSE Len(calls), bad)
               /\ runs' = update_analysis_run_status(runs, job.run_id,
                                     IF raised THEN "failed" ELSE "completed")
               /\ job' = [job EXCEPT !.raised = raised]
    /\ pc' = "done"
    /\ UNCHANGED <<bar_vars, signal_vars, backtest, resonance, market, resampling, later,
                   run_seq, last_call>>

\* analyze_stocks has returned or raised; the next invocation may start
Return ==
    /\ pc = "done"
    /\ pc' = "idle"
    /\ job' = IdleJob
    /\ UNCHANGED <<bar_vars, signal_vars, backtest, resonance, market, resampling, later, runs,
                   results, run_seq, last_call>>

NextRun ==
    \/ CreateRun
    \/ LoadStockList
    \/ ProcessTickers
    \/ AggregateAndSave
    \/ Return

SpecRun == InitRun /\ [][NextRun]_vars

----------------------------------------------------------------------------
(* Scenario: calls of save_analysis_result, each possibly repeated with    *)
(* the same arguments                                                      *)

MaxResults == 3

\* the keys of the calls: a key and the four keys that differ from
\* it in one component
DirectKeys ==
    {[run_id |-> 1, ticker |-> "ALL", interval |-> "ALL", result_type |-> "cd_eval_custom_detailed"],
     [run_id |-> 2, ticker |-> "ALL", interval |-> "ALL", result_type |-> "cd_eval_custom_detailed"],
     [run_id |-> 1, ticker |-> "AAPL", interval |-> "ALL", result_type |-> "cd_eval_custom_detailed"],
     [run_id |-> 1, ticker |-> "ALL", interval |-> "1d", result_type |-> "cd_eval_custom_detailed"],
     [run_id |-> 1, ticker |-> "ALL", interval |-> "ALL", result_type |-> "cd_market_breadth_1234"]}

DirectData ==
    {<<>>,
     <<SignalRow("AAPL")>>,
     <<[ticker |-> "str AAPL", signal_date |-> "date 2024-01-02", signal_price |-> "int64 7"]>>}

InitSave ==
    /\ pc = "sink"
    /\ close = <<>> /\ high = <<>> /\ low = <<>> /\ volume = <<>>
    /\ cd_signals = <<>> /\ mc_signals = <<>>
    /\ NoBacktest
    /\ NoResonance
    /\ NoMarket
    /\ NoResampling
    /\ NoLater
    /\ runs = {}
    /\ results = {}
    /\ run_seq = 0
    /\ job = <<>>
    /\ last_call = [op |-> "none"]

\* save_analysis_result(run_id, ticker, interval, result_type, data)
SaveAnalysisResult ==
    /\ pc \in {"sink", "saved", "saved_again"}
    /\ MaxId(results) < MaxResults
    /\ \E key \in DirectKeys, data \in DirectData, db_ok \in BOOLEAN :
         /\ results' = save_analysis_result(results, key.run_id, key.ticker, key.interval,
                                            key.result_type, data, db_ok)
         /\ last_call' = [op |-> "save_analysis_result", key |-> key, data |-> data,
                          db_ok |-> db_ok, results_before |-> results,
                          first_ok |-> db_ok, results_once |-> {}]
    /\ pc' = "saved"
    /\ UNCHANGED <<bar_vars, signal_vars, backtest, resonance, market, resampling, later, runs,
                   run_seq, job>>

\* save_analysis_result called again with the arguments of the latest call
SaveAgain ==
    /\ pc = "saved"
    /\ \E db_ok \in BOOLEAN :
         /\ results' = save_analysis_result(results, last_call.key.run_id,
                                            last_call.key.ticker, last_call.key.interval,
                                            last_call.key.result_type, last_call.data, db_ok)
         /\ last_call' = [last_call EXCEPT !.db_ok = db_ok, !.results_before = results,
                                           !.first_ok = last_call.db_ok,
                                           !.results_once = results]
    /\ pc' = "saved_again"
    /\ UNCHANGED <<bar_vars, signal_vars, backtest, resonance, market, resampling, later, runs,
                   run_seq, job>>

NextSave == SaveAnalysisResult \/ SaveAgain

SpecSave == InitSave /\ [][NextSave]_vars

----------------------------------------------------------------------------
(* C18: keep-latest retention of create_analysis_run *)

\* create_analysis_run has just returned the id of a new run
RunCreated == pc = "created" /\ last_call.op = "create_analysis_run" /\ last_call.returned

NewRun ==
    [id |-> last_call.run_id, stock_list_name |-> last_call.stock_list_name,
     status |-> "running"]

EarlierRuns == RunsOfList(last_call.runs_before, last_call.stock_list_name)

OtherRuns(table) == {r \in table : r.stock_list_name # last_call.stock_list_name}

\* C18: after create_analysis_run(list_name) returns, the new run is the only
\* AnalysisRun of list_name, its status is running, no AnalysisResult of an
\* earlier run of that list remains stored, and the runs and results of other
\* list names are unchanged.
C18_KeepLatest ==
    RunCreated =>
        /\ RunsOfList(runs, last_call.stock_list_name) = {NewRun}
        /\ ResultsOf(results, EarlierRuns) = {}
        /\ OtherRuns(runs) = OtherRuns(last_call.runs_before)
        /\ ResultsOf(results, OtherRuns(runs))
             = ResultsOf(last_call.results_before, OtherRuns(last_call.runs_before))

\* C18, as the code behaves: the new run is stored with status running, the
\* earlier runs of the list are gone when the cleanup committed and all kept
\* when it raised, the runs of other list names are unchanged, and no
\* AnalysisResult at all is deleted, those of the earlier runs included.
C18_RunsReplacedResultsKept ==
    RunCreated =>
        /\ NewRun \in runs
        /\ RunsOfList(runs, last_call.stock_list_name)
             = (IF last_call.cleaned THEN {} ELSE EarlierRuns) \cup {NewRun}
        /\ OtherRuns(runs) = OtherRuns(last_call.runs_before)
        /\ results = last_call.results_before

\* a list is analysed again after a run that saved results, and the cleanup
\* committed
C18_Witness ==
    /\ RunCreated
    /\ last_call.cleaned
    /\ ResultsOf(results, EarlierRuns) # {}
    /\ RunsOfList(runs, last_call.stock_list_name) = {NewRun}

----------------------------------------------------------------------------
(* C19: the status analyze_stocks leaves its run in *)

\* analyze_stocks has returned or raised after it created a run
Finished == pc = "done" /\ job.run_id # None

\* the status of the run the invocation created
StatusOfRun == {r.status : r \in {x \in runs : x.id = job.run_id}}

\* C19: an analyze_stocks invocation that created a run leaves it failed if
\* the ticker list could not be loaded or is empty or the body raised, and
\* completed otherwise, also when tickers failed or have no signals; a run
\* status is always running, completed or failed.
C19_FinalStatus ==
    /\ \A r \in runs : r.status \in {"running", "completed", "failed"}
    /\ Finished =>
         StatusOfRun = {IF job.unreadable \/ job.no_tickers \/ job.raised
                        THEN "failed" ELSE "completed"}

\* C19, as the code behaves: the run is left failed if the ticker file could
\* not be read or the body raised, and completed otherwise, also for a file
\* without tickers, whose run analyses the four index tickers; a run status
\* is always running, completed or failed, and running only until the
\* invocation ends.
C19_StatusAfterIndexTickers ==
    /\ \A r \in runs : r.status \in {"running", "completed", "failed"}
    /\ Finished =>
         StatusOfRun = {IF job.unreadable \/ job.raised THEN "failed" ELSE "completed"}
    /\ \A r \in runs : r.status = "running" => (pc \notin {"idle", "done"} /\ r.id = job.run_id)

\* a run is completed although one of its tickers failed and others have no
\* signals
C19_Witness ==
    /\ Finished
    /\ StatusOfRun = {"completed"}
    /\ job.failed_tickers # <<>>
    /\ Len(job.failed_tickers) < Len(job.tickers)

\* analyze_stocks runs on once it has created its run: each of its steps is
\* taken
SpecRunLive ==
    /\ SpecRun
    /\ WF_vars(LoadStockList) /\ WF_vars(ProcessTickers) /\ WF_vars(AggregateAndSave)

\* C19, as the code behaves: a run that is running is eventually completed
\* or failed, or replaced
C19_EventuallyTerminal ==
    \A id \in 1..(MaxRuns + 1) :
        (\E r \in runs : r.id = id /\ r.status = "running")
            ~> (\A r \in runs : r.id = id => r.status \in {"completed", "failed"})

----------------------------------------------------------------------------
(* C20: save_analysis_result is an upsert *)

\* save_analysis_result has just been called
Saved == pc \in {"saved", "saved_again"} /\ last_call.op = "save_analysis_result"

\* the call met no error: the database did not raise and the JSON column
\* could encode the data
CallOk == last_call.db_ok /\ Serializable(clean_nans(last_call.data))

\* the rows stored under the key of the latest call
UnderKey(table) ==
    {r \in table : SameKey(r, last_call.key.run_id, last_call.key.ticker,
                           last_call.key.interval, last_call.key.result_type)}

\* the rows without their primary keys, which a caller neither passes nor
\* reads
Content(table) ==
    {[run_id |-> r.run_id, ticker |-> r.ticker, interval |-> r.interval,
      result_type |-> r.result_type, data |-> r.data] : r \in table}

\* C20: save_analysis_result(run_id, ticker, interval, result_type, data)
\* leaves exactly one record for the key, holding the latest data as
\* clean_nans encodes it; the records under every other key are unchanged;
\* on an error the store is left as it was before the call; and the same call
\* made twice leaves the store the call made once leaves.
C20_Upsert ==
    Saved =>
        /\ CallOk =>
             /\ Cardinality(UnderKey(results)) = 1
             /\ \A r \in UnderKey(results) : r.data = clean_nans(last_call.data)
        /\ results \ UnderKey(results)
             = last_call.results_before \ UnderKey(last_call.results_before)
        /\ ~CallOk => results = last_call.results_before
        /\ (pc = "saved_again" /\ last_call.db_ok = last_call.first_ok) =>
             Content(results) = Content(last_call.results_once)

\* a call that succeeds on a store holding other data under its key and a
\* record under another key
C20_Witness ==
    /\ Saved
    /\ CallOk
    /\ \E r \in UnderKey(last_call.results_before) : r.data # clean_nans(last_call.data)
    /\ last_call.results_before \ UnderKey(last_call.results_before) # {}
    /\ clean_nans(last_call.data) # last_call.data

----------------------------------------------------------------------------
(* Scenario: the cross evaluators are applied to a Bar sequence, the date   *)
(* and price of an opposite signal and the date of the signal under         *)
(* evaluation                                                              *)

\* Longest Bar sequence of the scenario
MaxCross == 4

\* <<Low, Close, High>> of a bar: flat bars, bars with a range, and a bar
\* whose Close lies above its High
BarShapes ==
    {<<10, 10, 10>>, <<20, 20, 20>>, <<8, 10, 12>>, <<18, 20, 22>>, <<9, 15, 12>>}

\* the dates a caller may pass: those of the index and one on either side
CrossDates(n) == 0..(n + 1)

\* the prices a caller may pass with a date: the Close of its bar, or another
CrossPrices(date) == (IF date \in 1..Len(close) THEN {close[date]} ELSE {}) \cup {30}

InitCross ==
    /\ pc = "bars"
    /\ \E n \in 1..MaxCross : \E shapes \in [1..n -> BarShapes] :
          /\ low = [i \in 1..n |-> shapes[i][1]]
          /\ close = [i \in 1..n |-> shapes[i][2]]
          /\ high = [i \in 1..n |-> shapes[i][3]]
          /\ volume = [i \in 1..n |-> 100 + i]
    /\ cd_signals = <<>> /\ mc_signals = <<>>
    /\ NoBacktest
    /\ NoResonance
    /\ NoMarket
    /\ NoResampling
    /\ NoRunStore
    /\ cross_call = <<>>
    /\ cross_eval = <<>>
    /\ NoRolling
    /\ NoLookback
    /\ NoEngine

\* evaluate_mc_at_top_price(data, mc_date, mc_price, cd_date)
EvaluateMcAtTop ==
    /\ pc = "bars"
    /\ \E mc_date \in CrossDates(Len(close)), cd_date \in CrossDates(Len(close)) :
       \E mc_price \in CrossPrices(mc_date) :
          /\ cross_call' = [opposite_date |-> mc_date, opposite_price |-> mc_price,
                            signal_date |-> cd_date]
          /\ cross_eval' = evaluate_mc_at_top_price(Df, mc_date, mc_price, cd_date)
    /\ pc' = "mc_evaluated"
    /\ UNCHANGED <<bar_vars, signal_vars, backtest, resonance, market, resampling, run_store,
                   rolling, lookback, engine>>

\* evaluate_cd_at_bottom_price(data, cd_date, cd_price, mc_date)
EvaluateCdAtBottom ==
    /\ pc = "bars"
    /\ \E cd_date \in CrossDates(Len(close)), mc_date \in CrossDates(Len(close)) :
       \E cd_price \in CrossPrices(cd_date) :
          /\ cross_call' = [opposite_date |-> cd_date, opposite_price |-> cd_price,
                            signal_date |-> mc_date]
          /\ cross_eval' = evaluate_cd_at_bottom_price(Df, cd_date, cd_price, mc_date)
    /\ pc' = "cd_evaluated"
    /\ UNCHANGED <<bar_vars, signal_vars, backtest, resonance, market, resampling, run_store,
                   rolling, lookback, engine>>

NextCross == EvaluateMcAtTop \/ EvaluateCdAtBottom

SpecCross == InitCross /\ [][NextCross]_vars

\* a cross evaluator has returned
CrossEvaluated == pc \in {"mc_evaluated", "cd_evaluated"}

\* the call raised: a date is not in the index
CrossRaised ==
    \/ RaisesKeyError(Df, cross_call.opposite_date)
    \/ RaisesKeyError(Df, cross_call.signal_date)

TrueFlags ==
    Cardinality({f \in {"is_near", "is_followed", "is_local"} : cross_eval[f]})

\* C21: in the record of evaluate_mc_at_top_price / evaluate_cd_at_bottom_price
\* criteria_met is the number of true flags among is_near_extreme,
\* is_followed_by_reversal and is_local_extreme, so within 0..3, and
\* is_at_extreme_price is true exactly when criteria_met >= 2; when the
\* computation raises, criteria_met is 0, every flag is false and the
\* percentile is 0.5.
C21_Verdict ==
    CrossEvaluated =>
        /\ cross_eval.criteria_met = TrueFlags
        /\ cross_eval.criteria_met \in 0..3
        /\ cross_eval.is_at_extreme <=> cross_eval.criteria_met >= 2
        /\ CrossRaised =>
             /\ cross_eval.criteria_met = 0
             /\ ~cross_eval.is_near /\ ~cross_eval.is_followed /\ ~cross_eval.is_local
             /\ ~cross_eval.is_at_extreme
             /\ 2 * cross_eval.lookback_price_percentile.num
                    = cross_eval.lookback_price_percentile.den

\* an evaluation with exactly one criterion met, hence not at the extreme
C21_Witness ==
    /\ CrossEvaluated
    /\ ~CrossRaised
    /\ cross_eval.criteria_met = 1
    /\ ~cross_eval.is_at_extreme

\* every bar has Low <= Close <= High
WellFormedBars == \A i \in 1..Len(close) : low[i] <= close[i] /\ close[i] <= high[i]

\* the call passes an opposite occurrence strictly before the signal date,
\* with the Close of its bar
CrossPrecondition ==
    /\ CrossEvaluated
    /\ ~CrossRaised
    /\ WellFormedBars
    /\ cross_call.opposite_date < cross_call.signal_date
    /\ cross_call.opposite_price = close[cross_call.opposite_date]

\* the bars from warmup_start to the signal date
CrossRange == (Min(EMA_WARMUP_PERIOD, Len(close) - 1) + 1)..cross_call.signal_date

RangeHigh == CHOOSE h \in {high[k] : k \in CrossRange} : \A k \in CrossRange : high[k] <= h

RangeLow == CHOOSE l \in {low[k] : k \in CrossRange} : \A k \in CrossRange : l <= low[k]

\* C22: for bars with Low <= Close <= High and an opposite occurrence
\* strictly before the signal date S, price_percentile is (opposite Close -
\* range low) / (range high - range low) over the bars from warmup_start to
\* S and lies in [0, 1]; when range high = range low it is exactly 0.5 and
\* is_near_extreme is false.
C22_PercentileInRange ==
    CrossPrecondition =>
        LET pp == cross_eval.lookback_price_percentile
        IN  /\ pp.den > 0
            /\ 0 <= pp.num /\ pp.num <= pp.den
            /\ RangeHigh > RangeLow =>
                 pp.num * (RangeHigh - RangeLow)
                     = (cross_call.opposite_price - RangeLow) * pp.den
            /\ RangeHigh = RangeLow =>
                 /\ 2 * pp.num = pp.den
                 /\ ~cross_eval.is_near

\* an opposite Close at the top of a range wider than one price
C22_Witness ==
    /\ CrossPrecondition
    /\ RangeHigh > RangeLow
    /\ cross_eval.lookback_price_percentile.num = cross_eval.lookback_price_percentile.den
    /\ cross_eval.is_near

----------------------------------------------------------------------------
(* The opposite occurrence paired with each retained signal date           *)

ReturnsComputed == pc \in {"cd_returns", "mc_returns"}

\* the series of the opposite kind
Opposite == IF pc = "cd_returns" THEN mc_signals ELSE cd_signals

\* the opposite occurrences strictly before date S; an undefined flag is not
\* an occurrence
PriorOpposite(S) == {m \in TruePositions(Opposite) : m < S}

\* the cross fields of a row, under the names of either kind
PairOf(row) ==
    IF pc = "cd_returns"
    THEN [date |-> row.prev_mc_date, price |-> row.prev_mc_price,
          at_extreme |-> row.mc_at_top_price, percentile |-> row.mc_price_percentile,
          move |-> row.mc_decline_after, criteria_met |-> row.mc_criteria_met]
    ELSE [date |-> row.prev_cd_date, price |-> row.prev_cd_price,
          at_extreme |-> row.cd_at_bottom_price, percentile |-> row.cd_price_percentile,
          move |-> row.cd_increase_after, criteria_met |-> row.cd_criteria_met]

\* mc_signals_before_cd / cd_signals_before_mc of the summary
SignalsBefore ==
    IF pc = "cd_returns" THEN CdCrossFields(returns_df).mc_signals_before_cd
    ELSE McCrossFields(returns_df).cd_signals_before_mc

\* C23: for each signal date S the paired opposite occurrence is the one
\* with the greatest timestamp strictly less than S (undefined flags counted
\* as false), with the Close of its bar; when there is none the pair is
\* (None, None), no cross evaluation is computed for S, and S is not counted
\* in mc_signals_before_cd / cd_signals_before_mc.
C23_LatestOpposite ==
    ReturnsComputed =>
        /\ \A k \in 1..Len(returns_df) :
              LET S == returns_df[k].date
                  pair == PairOf(returns_df[k])
              IN  IF PriorOpposite(S) = {}
                  THEN /\ pair.date = None /\ pair.price = None
                       /\ ~pair.at_extreme
                       /\ pair.percentile = 0 /\ pair.move = 0 /\ pair.criteria_met = 0
                  ELSE /\ pair.date \in PriorOpposite(S)
                       /\ \A m \in PriorOpposite(S) : m <= pair.date
                       /\ pair.price = close[pair.date]
        /\ returns_df # <<>> =>
              SignalsBefore
                  = Cardinality({k \in 1..Len(returns_df) :
                                    PriorOpposite(returns_df[k].date) # {}})

\* a date with no earlier opposite occurrence but one on its own bar, next
\* to a date with two earlier ones, in a series that starts undefined
C23_Witness ==
    /\ ReturnsComputed
    /\ Opposite[1] = "NaN"
    /\ \E k \in 1..Len(returns_df) :
          /\ PriorOpposite(returns_df[k].date) = {}
          /\ returns_df[k].date \in TruePositions(Opposite)
    /\ \E k \in 1..Len(returns_df) : Cardinality(PriorOpposite(returns_df[k].date)) >= 2
    /\ SignalsBefore < Len(returns_df)

----------------------------------------------------------------------------
(* Scenario: the buy-signal mask of process_ticker_1234 /                  *)
(* process_ticker_5230 and the mask of the price-history endpoint are       *)
(* built from the same CD series and the same breakthrough series          *)

\* Longest series of the scenario; the rolling window holds 10 bars
MaxRoll == 11

RollingWindow == 10

\* breakthrough.rolling(w).apply(func): float64 values, undefined until the
\* window is full; func gets the w values ending at i
rolling_apply(series, w, func(_)) ==
    [i \in 1..Len(series) |->
        IF i < w THEN NaNf ELSE Num(func(SubSeq(series, i - w + 1, i)))]

\* x.any() over the floats of a window
any(x) == \E k \in 1..Len(x) : x[k] # 0

\* the lambda that answers whether the window holds any true element
any_in_window(x) == IF any(x) THEN 1 ELSE 0

\* lambda x: x.iloc[0] if x.any() else False
first_if_any(x) == IF any(x) THEN x[1] ELSE 0

\* a boolean series as the float64 values rolling() works on
AsFloat(series) == [i \in 1..Len(series) |-> IF series[i] THEN 1 ELSE 0]

\* the right operand of & between a bool Series and a float64 one: undefined
\* becomes False, every other value its truth value
fill_bool(x) == [i \in 1..Len(x) |-> ~x[i].nan /\ x[i].v # 0]

\* fillna(False).astype(bool) of a tri-state series
fillna_bool(series) == [i \in 1..Len(series) |-> series[i] = "True"]

\* series.shift(lag): undefined for the first lag elements
shift(series, lag) ==
    [i \in 1..Len(series) |-> IF i <= lag THEN "NaN" ELSE BoolStr(series[i - lag])]

\* the window expression of lines 64 and 122
RolledBreakthrough == rolling_apply(AsFloat(breakthrough), RollingWindow, first_if_any)

\* process_ticker_1234 line 64, process_ticker_5230 line 122
process_ticker_mask(cd, rolled) ==
    LET cd_bool == fillna_bool(cd)
        right == fill_bool(rolled)
    IN  [i \in 1..Len(cd) |-> (cd_bool[i] /\ breakthrough[i]) \/ (cd_bool[i] /\ right[i])]

\* the price-history endpoint, lines 305-316
endpoint_mask(cd, b) ==
    LET cd_bool == fillna_bool(cd)
        oldest_breakthrough == fillna_bool(shift(b, RollingWindow - 1))
    IN  [i \in 1..Len(cd) |-> (cd_bool[i] /\ b[i]) \/ (cd_bool[i] /\ oldest_breakthrough[i])]

\* CD series of n bars: every bar, every third bar after an undefined one,
\* the bars from the tenth on
CdPatterns(n) ==
    {[i \in 1..n |-> "True"],
     [i \in 1..n |-> IF i = 1 THEN "NaN" ELSE IF i % 3 = 0 THEN "True" ELSE "False"],
     [i \in 1..n |-> IF i >= RollingWindow THEN "True" ELSE "NaN"]}

InitRoll ==
    /\ pc = "series"
    /\ close = <<>> /\ high = <<>> /\ low = <<>> /\ volume = <<>>
    /\ \E n \in 1..MaxRoll :
          /\ breakthrough \in [1..n -> BOOLEAN]
          /\ cd_signals \in CdPatterns(n)
    /\ mc_signals = <<>>
    /\ NoBacktest
    /\ NoResonance
    /\ NoMarket
    /\ NoResampling
    /\ NoRunStore
    /\ NoCrossing
    /\ buy_signals = <<>>
    /\ cd_1234 = <<>>
    /\ NoLookback
    /\ NoEngine

\* process_ticker_1234 / process_ticker_5230 build buy_signals
ProcessTicker ==
    /\ pc \in {"series", "served"}
    /\ buy_signals' = process_ticker_mask(cd_signals, RolledBreakthrough)
    /\ pc' = IF pc = "series" THEN "processed" ELSE "both"
    /\ UNCHANGED <<bar_vars, signal_vars, backtest, resonance, market, resampling, run_store,
                   crossing, breakthrough, cd_1234, lookback, engine>>

\* the price-history endpoint builds cd_1234
PriceHistory ==
    /\ pc \in {"series", "processed"}
    /\ cd_1234' = endpoint_mask(cd_signals, breakthrough)
    /\ pc' = IF pc = "series" THEN "served" ELSE "both"
    /\ UNCHANGED <<bar_vars, signal_vars, backtest, resonance, market, resampling, run_store,
                   crossing, breakthrough, buy_signals, lookback, engine>>

NextRoll == ProcessTicker \/ PriceHistory

SpecRoll == InitRoll /\ [][NextRoll]_vars

\* C24: for every boolean breakthrough series b and every index i >= 9
\* (counted from 0) the expression 'first element of the 10-bar window
\* ending at i if any element of that window is true, else false' equals
\* b[i-9]; hence at every such bar the buy-signal mask of
\* process_ticker_1234 / process_ticker_5230 equals the mask (cd AND b) OR
\* (cd AND b shifted by 9) of the price-history endpoint.
C24_RollingIsShift ==
    /\ pc \in {"processed", "both"} =>
          \A i \in RollingWindow..Len(breakthrough) :
              /\ RolledBreakthrough[i] = Num(IF breakthrough[i - 9] THEN 1 ELSE 0)
              /\ buy_signals[i] = endpoint_mask(cd_signals, breakthrough)[i]
    /\ pc = "both" =>
          \A i \in RollingWindow..Len(breakthrough) : buy_signals[i] = cd_1234[i]

\* both masks built; a window whose first element is false holds a true one,
\* and the masks differ from cd AND b at a bar where the oldest element
\* of the window is the only true one
C24_Witness ==
    /\ pc = "both"
    /\ \E i \in RollingWindow..Len(breakthrough) :
          /\ ~breakthrough[i - 9]
          /\ \E k \in (i - 8)..i : breakthrough[k]
          /\ cd_signals[i] = "True" /\ ~breakthrough[i] /\ ~buy_signals[i]
    /\ \E i \in RollingWindow..Len(breakthrough) :
          /\ breakthrough[i - 9] /\ ~breakthrough[i]
          /\ buy_signals[i] /\ cd_1234[i]

----------------------------------------------------------------------------
(* Scenario: the lookback primitives of the indicators are applied to a    *)
(* series and a series of events, window lengths or lags                   *)

\* Longest series of the scenario
MaxLook == 4

LookValues == 1..3

InitLook ==
    /\ pc = "series"
    /\ close = <<>> /\ high = <<>> /\ low = <<>> /\ volume = <<>>
    /\ cd_signals = <<>> /\ mc_signals = <<>>
    /\ NoBacktest
    /\ NoResonance
    /\ NoMarket
    /\ NoResampling
    /\ NoRunStore
    /\ NoCrossing
    /\ NoRolling
    /\ \E n \in 1..MaxLook : look_series \in [1..n -> LookValues]
    /\ look_call = <<>>
    /\ look_out = <<>>
    /\ NoEngine

\* the variables no lookback primitive changes
LookFrame ==
    UNCHANGED <<bar_vars, signal_vars, backtest, resonance, market, resampling, run_store,
                crossing, rolling, look_series, engine>>

\* _compute_barslast(cross_events, length)
Barslast ==
    /\ pc = "series"
    /\ \E cross_events \in [1..Len(look_series) -> BOOLEAN] :
          /\ look_call' = [primitive |-> "barslast", arg |-> cross_events]
          /\ look_out' = _compute_barslast(cross_events, Len(look_series))
    /\ pc' = "barslast"
    /\ LookFrame

\* _compute_llv(series, periods)
Llv ==
    /\ pc = "series"
    /\ \E lengths \in [1..Len(look_series) -> 0..Len(look_series)] :
          /\ look_call' = [primitive |-> "llv", arg |-> lengths]
          /\ look_out' = _compute_llv(look_series, lengths)
    /\ pc' = "llv"
    /\ LookFrame

\* _compute_hhv(series, periods)
Hhv ==
    /\ pc = "series"
    /\ \E lengths \in [1..Len(look_series) -> 0..Len(look_series)] :
          /\ look_call' = [primitive |-> "hhv", arg |-> lengths]
          /\ look_out' = _compute_hhv(look_series, lengths)
    /\ pc' = "hhv"
    /\ LookFrame

\* _compute_ref(series, lags) of a float series
Ref ==
    /\ pc = "series"
    /\ \E lags \in [1..Len(look_series) -> 0..Len(look_series)] :
          /\ look_call' = [primitive |-> "ref", arg |-> lags]
          /\ look_out' = _compute_ref([i \in 1..Len(look_series) |-> Num(look_series[i])],
                                      lags)
    /\ pc' = "ref"
    /\ LookFrame

NextLook == Barslast \/ Llv \/ Hhv \/ Ref

SpecLook == InitLook /\ [][NextLook]_vars

\* the bars of the window of length len ending at bar i, clipped at the
\* first bar
ClippedWindow(i, len) == {k \in 1..i : k >= i - len + 1}

\* C25: _compute_barslast returns at bar i the distance i - j to the most
\* recent bar j <= i with a cross event, or 0 if there is none, so the window
\* lengths n1+1 and mm1+1 are at least 1; _compute_llv / _compute_hhv
\* return at bar i the min / max of the series over the window of length
\* len_i ending at i and clipped at the first bar, never undefined for
\* len_i >= 1; _compute_ref returns series[i - lag_i] when the lag does not
\* reach before the first bar and undefined otherwise.
C25_LookbackPrimitives ==
    /\ pc = "barslast" =>
          \A i \in 1..Len(look_series) :
              LET events == {j \in 1..i : look_call.arg[j]}
              IN  /\ events = {} => look_out[i] = 0
                  /\ events # {} =>
                        /\ i - look_out[i] \in events
                        /\ \A j \in events : j <= i - look_out[i]
                  /\ look_out[i] + 1 >= 1
    /\ pc \in {"llv", "hhv"} =>
          \A i \in 1..Len(look_series) :
              look_call.arg[i] >= 1 =>
                  LET window == ClippedWindow(i, look_call.arg[i])
                  IN  /\ ~look_out[i].nan
                      /\ \E k \in window : look_series[k] = look_out[i].v
                      /\ pc = "llv" => \A k \in window : look_out[i].v <= look_series[k]
                      /\ pc = "hhv" => \A k \in window : look_out[i].v >= look_series[k]
    /\ pc = "ref" =>
          \A i \in 1..Len(look_series) :
              IF look_call.arg[i] <= i - 1
              THEN look_out[i] = Num(look_series[i - look_call.arg[i]])
              ELSE look_out[i].nan

\* two events before the last bar, with bars since the second
C25_Witness ==
    /\ pc = "barslast"
    /\ Cardinality({j \in 1..Len(look_series) : look_call.arg[j]}) >= 2
    /\ look_out[Len(look_series)] >= 1
    /\ look_out[1] = 0 /\ ~look_call.arg[1]

----------------------------------------------------------------------------
(* Scenario: start calls on the JobManager and the background threads they *)
(* start, interleaved statement by statement                               *)

\* Most AnalysisJob objects constructed
MaxJobs == 2

\* Last second the clock reaches
MaxClock == 2

\* len(tickers) of an analysis: the four index tickers
TickerCount == 4

\* AnalysisJob.__init__
AnalysisJob(job_id, kind) ==
    [job_id |-> job_id, kind |-> kind, status |-> "pending", error |-> FALSE, progress |-> 0]

\* the thread started with target _run_analysis / _run_multi_index_analysis
Thread(job_id, kind) ==
    [job_id |-> job_id, kind |-> kind, at |-> "spawned", job |-> None,
     run |-> "none", processed |-> 0, ended |-> "none"]

\* the guard of both start methods
already_running ==
    current_job_id # None /\ heap[jobs[current_job_id]].status = "running"

\* a job started earlier has not reached completed or failed
Unfinished == \E k \in 1..Len(heap) : heap[k].status \in {"pending", "running"}

\* the body of start_analysis / start_multi_index_analysis under the lock
start(kind) ==
    IF already_running
    THEN /\ start_call' = [unfinished |-> Unfinished, raised |-> TRUE, created |-> FALSE]
         /\ UNCHANGED <<clock, heap, jobs, current_job_id, threads>>
    ELSE LET job_id == clock
         IN  /\ Len(heap) < MaxJobs
             /\ heap' = Append(heap, AnalysisJob(job_id, kind))
             /\ jobs' = (job_id :> (Len(heap) + 1)) @@ jobs
             /\ current_job_id' = job_id
             /\ threads' = Append(threads, Thread(job_id, kind))
             /\ start_call' = [unfinished |-> Unfinished, raised |-> FALSE, created |-> TRUE]
             /\ UNCHANGED clock

\* the variables the engine does not touch
EngineFrame ==
    UNCHANGED <<pc, bar_vars, signal_vars, backtest, resonance, market, resampling, run_store,
                crossing, rolling, lookback>>

InitJobs ==
    /\ pc = "engine"
    /\ close = <<>> /\ high = <<>> /\ low = <<>> /\ volume = <<>>
    /\ cd_signals = <<>> /\ mc_signals = <<>>
    /\ NoBacktest
    /\ NoResonance
    /\ NoMarket
    /\ NoResampling
    /\ NoRunStore
    /\ NoCrossing
    /\ NoRolling
    /\ NoLookback
    /\ clock = 1
    /\ heap = <<>>
    /\ jobs = <<>>
    /\ current_job_id = None
    /\ threads = <<>>
    /\ start_call = <<>>

\* a second passes
Tick ==
    /\ clock < MaxClock
    /\ clock' = clock + 1
    /\ UNCHANGED <<heap, jobs, current_job_id, threads, start_call>>
    /\ EngineFrame

StartAnalysis == start("stock_list") /\ EngineFrame

StartMultiIndexAnalysis == start("multi_index") /\ EngineFrame

\* thread t moves to position at with its locals changed
Move(t, changed) == threads' = [threads EXCEPT ![t] = changed]

\* an attribute of the AnalysisJob the thread holds is assigned
Assign(t, field, value) == heap' = [heap EXCEPT ![threads[t].job][field] = value]

\* update_progress(p): job.progress = int(p)
update_progress(t, p) == Assign(t, "progress", p)

EngineRest == UNCHANGED <<clock, jobs, current_job_id, start_call>> /\ EngineFrame

\* job = self.jobs[job_id]
fetch_job(t) ==
    /\ threads[t].at = "spawned"
    /\ Move(t, [threads[t] EXCEPT !.at = "fetched", !.job = jobs[threads[t].job_id]])
    /\ UNCHANGED heap
    /\ EngineRest

\* job.status = "running"; job.progress = 0, then the analysis is called
set_running(t) ==
    /\ threads[t].at = "fetched"
    /\ heap' = [heap EXCEPT ![threads[t].job].status = "running",
                            ![threads[t].job].progress = 0]
    /\ Move(t, [threads[t] EXCEPT !.at = "analyzing"])
    /\ EngineRest

\* run_id = create_analysis_run(...): analyze_stocks returns when it raises,
\* analyze_multi_index lets the exception through. Then the tickers are
\* loaded: analyze_stocks fails the run and returns when the file cannot be
\* read, analyze_multi_index when no ticker was found; otherwise the pool is
\* entered and progress_callback(0) called
create_run_and_load(t) ==
    /\ threads[t].at = "analyzing"
    /\ \E created \in BOOLEAN, loaded \in BOOLEAN :
          IF ~created
          THEN /\ Move(t, [threads[t] EXCEPT !.run = "not_created",
                               !.at = IF threads[t].kind = "stock_list"
                                      THEN "returned" ELSE "raised"])
               /\ UNCHANGED heap
          ELSE IF ~loaded
          THEN /\ Move(t, [threads[t] EXCEPT !.at = "returned", !.run = "failed"])
               /\ UNCHANGED heap
          ELSE /\ update_progress(t, 0)
               /\ Move(t, [threads[t] EXCEPT !.at = "pool", !.run = "running"])
    /\ EngineRest

\* the progress reported after processed_count results
ProgressAfter(kind, processed_count) ==
    IF kind = "stock_list"
    THEN Max(1, (processed_count * 99) \div TickerCount)
    ELSE (processed_count * 90) \div TickerCount

\* one result of pool.imap, or an exception, which fails the run and is
\* raised again
process_ticker(t) ==
    /\ threads[t].at = "pool"
    /\ threads[t].processed < TickerCount
    /\ \E raised \in BOOLEAN :
          IF raised
          THEN /\ Move(t, [threads[t] EXCEPT !.at = "raised", !.run = "failed",
                                              !.processed = 0])
               /\ UNCHANGED heap
          ELSE /\ update_progress(t, ProgressAfter(threads[t].kind, threads[t].processed + 1))
               /\ Move(t, [threads[t] EXCEPT !.processed = @ + 1])
    /\ EngineRest

\* the results are aggregated and saved and the run completed (after
\* progress_callback(92) and progress_callback(100) in analyze_multi_index),
\* or a statement raises and the run is failed
save_results(t) ==
    /\ threads[t].at = "pool"
    /\ threads[t].processed = TickerCount
    /\ \E raised \in BOOLEAN :
          IF raised
          THEN /\ Move(t, [threads[t] EXCEPT !.at = "raised", !.run = "failed",
                                              !.processed = 0])
               /\ \/ UNCHANGED heap
                  \/ /\ threads[t].kind = "multi_index"
                     /\ \E p \in {92, 100} : update_progress(t, p)
          ELSE /\ Move(t, [threads[t] EXCEPT !.at = "returned", !.run = "completed",
                                              !.processed = 0])
               /\ IF threads[t].kind = "multi_index"
                  THEN update_progress(t, 100) ELSE UNCHANGED heap
    /\ EngineRest

\* job.status = "completed"
set_completed(t) ==
    /\ threads[t].at = "returned"
    /\ Assign(t, "status", "completed")
    /\ Move(t, [threads[t] EXCEPT !.at = "completed_set", !.ended = "completed"])
    /\ EngineRest

\* job.progress = 100
set_progress_100(t) ==
    /\ threads[t].at = "completed_set"
    /\ Assign(t, "progress", 100)
    /\ Move(t, [threads[t] EXCEPT !.at = "done"])
    /\ EngineRest

\* except Exception: job.status = "failed"; job.error = str(e)
set_failed(t) ==
    /\ threads[t].at = "raised"
    /\ heap' = [heap EXCEPT ![threads[t].job].status = "failed",
                            ![threads[t].job].error = TRUE]
    /\ Move(t, [threads[t] EXCEPT !.at = "done", !.ended = "failed"])
    /\ EngineRest

Threads == 1..Len(threads)

RunFetchJob == \E t \in Threads : fetch_job(t)

RunSetRunning == \E t \in Threads : set_running(t)

AnalyzeCreateRunAndLoad == \E t \in Threads : create_run_and_load(t)

AnalyzeProcessTicker == \E t \in Threads : process_ticker(t)

AnalyzeSaveResults == \E t \in Threads : save_results(t)

RunSetCompleted == \E t \in Threads : set_completed(t)

RunSetProgress100 == \E t \in Threads : set_progress_100(t)

RunSetFailed == \E t \in Threads : set_failed(t)

NextJobs ==
    \/ Tick
    \/ StartAnalysis
    \/ StartMultiIndexAnalysis
    \/ RunFetchJob
    \/ RunSetRunning
    \/ AnalyzeCreateRunAndLoad
    \/ AnalyzeProcessTicker
    \/ AnalyzeSaveResults
    \/ RunSetCompleted
    \/ RunSetProgress100
    \/ RunSetFailed

SpecJobs == InitJobs /\ [][NextJobs]_vars

\* a step of thread t
ThreadStep(t) ==
    /\ t \in Threads
    /\ \/ fetch_job(t)
       \/ set_running(t)
       \/ create_run_and_load(t)
       \/ process_ticker(t)
       \/ save_results(t)
       \/ set_completed(t)
       \/ set_progress_100(t)
       \/ set_failed(t)

\* every started thread is scheduled again and again, and every step of the
\* analysis returns or raises
SpecJobsLive == SpecJobs /\ \A t \in 1..MaxJobs : WF_vars(ThreadStep(t))

Terminal == {"completed", "failed"}

\* the threads whose analysis has been called and has not ended
Executing == {t \in Threads : threads[t].at \in {"analyzing", "pool"}}

\* C26: at most one job's analysis executes at a time: a start call made
\* while a job started earlier has not reached completed or failed (also
\* while it is still pending) raises 'An analysis is already running' and
\* creates no job, and distinct jobs never share a job_id.
C26_SingleAnalysis ==
    /\ start_call # <<>> /\ start_call.unfinished =>
          start_call.raised /\ ~start_call.created
    /\ \A i \in 1..Len(heap) : \A j \in 1..Len(heap) \ {i} :
          heap[i].job_id # heap[j].job_id
    /\ Cardinality(Executing) <= 1

\* What the guard does ensure: a start call raises exactly when the current
\* job has status running, a call that raises creates neither job nor
\* thread, and a call that does not registers a pending job under the
\* second of the call as the current job.
C26_RefusedWhileRunning ==
    /\ Len(threads) = Len(heap)
    /\ start_call # <<>> =>
          /\ start_call.raised <=> ~start_call.created
          /\ start_call.raised => start_call.unfinished
    /\ current_job_id # None =>
          /\ current_job_id \in DOMAIN jobs
          /\ heap[jobs[current_job_id]].job_id = current_job_id
    /\ \A k \in 1..Len(heap) : heap[k].job_id \in DOMAIN jobs

\* a call refused while the current job runs
C26_Witness ==
    /\ start_call # <<>>
    /\ start_call.raised
    /\ Len(heap) = 1
    /\ heap[1].status = "running"

\* the threads that ran analyze_stocks to its end and wrote the job's status
Ended == {t \in Threads : threads[t].kind = "stock_list" /\ threads[t].ended # "none"}

\* C27: whenever analyze_stocks ends with the AnalysisRun marked failed, or
\* without having created a run, the AnalysisJob that invoked it ends with
\* status failed; the job ends completed only if the run is completed.
C27_JobFollowsRun ==
    \A t \in Ended :
        /\ threads[t].run \in {"failed", "not_created"} => threads[t].ended = "failed"
        /\ threads[t].ended = "completed" => threads[t].run = "completed"

\* What the engine does ensure: the job ends failed exactly when
\* analyze_stocks raised, which it does only after marking its run failed,
\* and a completed run ends the job completed.
C27_FailedWhenRaised ==
    \A t \in Ended :
        /\ threads[t].ended = "failed" => threads[t].run = "failed"
        /\ threads[t].run = "completed" => threads[t].ended = "completed"
        /\ threads[t].run \in {"failed", "not_created", "completed"}

\* one analysis raised and failed its job, another completed
C27_Witness ==
    /\ \E t \in Ended : threads[t].ended = "failed" /\ threads[t].run = "failed"
    /\ \E t \in Ended : threads[t].ended = "completed" /\ threads[t].run = "completed"

\* the status changes of the lifecycle
LifecycleStep(before, after) ==
    \/ before = after
    \/ before = "pending" /\ after = "running"
    \/ before = "running" /\ after \in Terminal

\* C28: every AnalysisJob moves only pending -> running -> completed or
\* failed and a completed or failed status never changes; every started job
\* eventually reaches completed or failed; progress stays within 0..100 and
\* never decreases, and a completed job has progress = 100.
C28_Lifecycle ==
    /\ [][\A k \in 1..Len(heap) :
             /\ LifecycleStep(heap[k].status, heap'[k].status)
             /\ heap'[k].progress >= heap[k].progress]_vars
    /\ [](\A k \in 1..Len(heap) :
             /\ heap[k].progress \in 0..100
             /\ heap[k].status = "completed" => heap[k].progress = 100)
    /\ \A k \in 1..MaxJobs :
          [](Len(heap) >= k => <>(Len(heap) >= k /\ heap[k].status \in Terminal))

\* no two AnalysisJob objects carry the same job_id
JobIdsDistinct ==
    \A i \in 1..Len(heap), j \in 1..Len(heap) : i # j => heap[i].job_id # heap[j].job_id

\* What the threads do ensure: as long as no two jobs were given the same
\* job_id, every job moves only pending -> running -> completed or failed,
\* its progress never decreases and stays within 0..100.
C28_LifecycleOfDistinctJobs ==
    [][JobIdsDistinct' =>
          \A k \in 1..Len(heap) :
              /\ LifecycleStep(heap[k].status, heap'[k].status)
              /\ heap'[k].progress >= heap[k].progress
              /\ heap'[k].progress \in 0..100]_vars

\* two jobs of distinct seconds: one completed with progress 100, one
\* failed at a lower progress
C28_Witness ==
    /\ JobIdsDistinct
    /\ \E k \in 1..Len(heap) : heap[k].status = "completed" /\ heap[k].progress = 100
    /\ \E k \in 1..Len(heap) :
          heap[k].status = "failed" /\ heap[k].progress \in 1..99

\* under the fair schedule every thread reaches its end
C28_ThreadsEnd ==
    \A t \in 1..MaxJobs : [](Len(threads) >= t => <>(Len(threads) >= t /\ threads[t].at = "done"))

----------------------------------------------------------------------------
(* Scenario: evaluate_interval is applied to the long series of the returns *)
(* scenario, where more occurrences exist than the cap keeps               *)

SpecCap == InitRet /\ [][NextBT]_vars

\* the rows calculate_returns hands to the evaluation under way
RowsUnderTest ==
    IF pc = "cd_result"
    THEN calculate_returns(Df, cd_signals, mc_signals, MAX_SIGNALS_THRESHOLD)
    ELSE mc_calculate_returns(Df, mc_signals, cd_signals, MAX_SIGNALS_THRESHOLD)

\* C29: in every record of evaluate_interval (CD and MC) test_count_p has
\* the same value at every offset p, the number of retained occurrences,
\* which is at most min(7, signal_count); no forward return of a retained
\* occurrence takes the out-of-range branch that marks it missing.
C29_UniformTestCounts ==
    Evaluated =>
        /\ \A p \in periods : result.test_count[p] = Cardinality(Retained(UnderTest))
        /\ \A p \in periods, q \in periods : result.test_count[p] = result.test_count[q]
        /\ result.test_count[0] <= Min(MAX_SIGNALS_THRESHOLD, result.signal_count)
        /\ \A k \in 1..Len(RowsUnderTest) : \A p \in periods :
              /\ RowsUnderTest[k].date + p <= Len(close)
              /\ ~RowsUnderTest[k].returns[p].nan

\* more occurrences than the cap keeps, and one of the seven most recent
\* too close to the end
C29_Witness ==
    /\ Evaluated
    /\ result.signal_count > MAX_SIGNALS_THRESHOLD
    /\ result.test_count[MaxPeriod] = MAX_SIGNALS_THRESHOLD - 1
    /\ Len(close) \in SevenMostRecent(UnderTest)

\* C30: in every record of evaluate_interval (CD and MC) with at least one
\* retained occurrence every offset-0 return is 0, so avg_return_0 = 0 and
\* success_rate_0 = 0; min_return <= 0 <= max_return, and min_return <=
\* avg_return_p <= max_return at every offset p.
C30_ReturnBounds ==
    Evaluated /\ Retained(UnderTest) # {} =>
        /\ \A k \in 1..Len(result.returns[0]) : result.returns[0][k] = 0
        /\ Len(result.returns[0]) = Cardinality(Retained(UnderTest))
        /\ result.avg_return[0] = 0
        /\ result.success_rate[0] = Num(0)
        /\ result.min_return <= 0 /\ 0 <= result.max_return
        /\ \A p \in periods :
              /\ result.min_return <= result.avg_return[p]
              /\ result.avg_return[p] <= result.max_return

\* every return after the signal bar is a gain, so 0 is the minimum, and
\* the average at the last offset lies strictly below the maximum
C30_Witness ==
    /\ Evaluated
    /\ Cardinality(Retained(UnderTest)) >= 2
    /\ result.min_return = 0
    /\ \A p \in periods \ {0} : \A k \in 1..Len(result.returns[p]) : result.returns[p][k] > 0
    /\ result.avg_return[MaxPeriod] < result.max_return


====
